---- MODULE Spec2Model ----
(***************************************************************************)
(* A model of the DefiLlama client (src/src/defillama/client.py) and of    *)
(* its response schemas (src/src/defillama/models.py).                     *)
(*                                                                         *)
(* Values.  A Python value (and so a parsed JSON value, which res.json()   *)
(* returns as Python objects) is a tagged tuple:                           *)
(*   <<"None">>, <<"bool", b>>, <<"int", n>>, <<"float", t>>,              *)
(*   <<"str", s>>, <<"list", seq>>, <<"dict", f>>, <<"model", name, f>>,   *)
(*   <<"datetime", t>>.                                                    *)
(* A float is kept in tenths (t = 15 is 1.5), so int and float stay        *)
(* different values and int -> float -> int conversions are computed.      *)
(* A str is a sequence of atoms (TLA+ strings): literal text of the source *)
(* is one atom, caller-supplied text is one atom per character.  String    *)
(* concatenation is \o.  Keys of a dict are TLA+ strings.                  *)
(***************************************************************************)
EXTENDS Integers, Sequences, FiniteSets, TLC

\* ---------------------------------------------------------------- bounds
\* The longest JSON array a response body holds.
MaxLen == 2
\* The largest UNIX timestamp / integer argument a caller passes.
MaxTs == 11

\* ---------------------------------------------------------------- values
None == <<"None">>
PyBool(b) == <<"bool", b>>
PyInt(n) == <<"int", n>>
PyFloat(t) == <<"float", t>>
PyStr(s) == <<"str", s>>
PyList(s) == <<"list", s>>
PyDict(f) == <<"dict", f>>
Tag(v) == v[1]

Ok(v) == <<"ok", v>>
Err == <<"err">>
IsOk(r) == r[1] = "ok"

\* ---------------------------------------------------------------- text
UpperCase == <<"A","B","C","D","E","F","G","H","I","J","K","L","M",
               "N","O","P","Q","R","S","T","U","V","W","X","Y","Z">>
LowerCase == <<"a","b","c","d","e","f","g","h","i","j","k","l","m",
               "n","o","p","q","r","s","t","u","v","w","x","y","z">>
DigitChars == <<"0","1","2","3","4","5","6","7","8","9">>

\* str.lower() on one character.
LowerChar(c) ==
  IF \E i \in 1..26 : UpperCase[i] = c
  THEN LowerCase[CHOOSE i \in 1..26 : UpperCase[i] = c]
  ELSE c

\* str.lower(): every cased character replaced by its lower-case form.
lower(s) == [i \in 1..Len(s) |-> LowerChar(s[i])]

\* str(n) for a non-negative int: its decimal digits.
RECURSIVE Digits(_)
Digits(n) ==
  IF n < 10 THEN <<DigitChars[n + 1]>>
  ELSE Digits(n \div 10) \o <<DigitChars[(n % 10) + 1]>>

IsDigit(c) == \E i \in 1..10 : DigitChars[i] = c
DigitVal(c) == (CHOOSE i \in 1..10 : DigitChars[i] = c) - 1

\* The int a string of digits denotes.
RECURSIVE DigitsVal(_)
DigitsVal(s) ==
  IF Len(s) = 0 THEN 0
  ELSE 10 * DigitsVal(SubSeq(s, 1, Len(s) - 1)) + DigitVal(s[Len(s)])

AllDigits(s) == Len(s) > 0 /\ \A i \in 1..Len(s) : IsDigit(s[i])

\* sep.join(parts) for a list of str.
RECURSIVE join(_, _)
join(sep, parts) ==
  IF Len(parts) = 0 THEN <<>>
  ELSE IF Len(parts) = 1 THEN parts[1]
  ELSE parts[1] \o sep \o join(sep, Tail(parts))

\* The text an f-string puts for a value: str(v).
Format(v) ==
  CASE Tag(v) = "str" -> v[2]
    [] Tag(v) = "int" -> Digits(v[2])
    [] Tag(v) = "bool" -> IF v[2] THEN <<"True">> ELSE <<"False">>
    [] OTHER -> <<"None">>

\* Python truthiness, as `if x:` tests it.
Truthy(v) ==
  CASE Tag(v) = "None" -> FALSE
    [] Tag(v) = "bool" -> v[2]
    [] Tag(v) = "int" -> v[2] # 0
    [] Tag(v) = "float" -> v[2] # 0
    [] Tag(v) = "str" -> Len(v[2]) > 0
    [] Tag(v) = "list" -> Len(v[2]) > 0
    [] Tag(v) = "dict" -> DOMAIN v[2] # {}
    [] OTHER -> TRUE

\* ------------------------------------------------------------ validation
\* pydantic (v2) validation of Python input, as BaseModel.model_validate and
\* TypeAdapter.validate_python run it for the types models.py declares.  A
\* type is a tagged tuple: <<"str">>, <<"int">>, <<"float">>, <<"bool">>,
\* <<"datetime">>, <<"any">>, <<"opt", T>>, <<"list", T>>, <<"dict", T>>
\* (Dict[str, T]), <<"union", <<T1, T2>>>>, <<"model", name>>.  The result is
\* Ok(value) or Err (a ValidationError).  `strict` is the mode: the lax mode
\* is the default one, the strict mode is the first pass of a union.

TStr == <<"str">>
TInt == <<"int">>
TFloat == <<"float">>
TBool == <<"bool">>
TDatetime == <<"datetime">>
TAny == <<"any">>
TOpt(T) == <<"opt", T>>
TList(T) == <<"list", T>>
TDict(T) == <<"dict", T>>
TUnion(T1, T2) == <<"union", <<T1, T2>>>>
TModel(name) == <<"model", name>>

\* A numeric string "12" or "1.5" (digits, optionally a point and one digit),
\* as tenths; Err for any other text.
ParseTenths(s) ==
  IF AllDigits(s) THEN Ok(10 * DigitsVal(s))
  ELSE IF Len(s) >= 3 /\ s[Len(s) - 1] = "." /\ IsDigit(s[Len(s)])
          /\ AllDigits(SubSeq(s, 1, Len(s) - 2))
       THEN Ok(10 * DigitsVal(SubSeq(s, 1, Len(s) - 2)) + DigitVal(s[Len(s)]))
       ELSE Err

\* An int validator that truncates a float with a fractional part.
ValidateIntTruncating(v, strict) ==
  CASE Tag(v) = "int" -> Ok(v)
    [] Tag(v) = "float" /\ ~strict -> Ok(PyInt(v[2] \div 10))
    [] Tag(v) = "bool" /\ ~strict -> Ok(PyInt(IF v[2] THEN 1 ELSE 0))
    [] OTHER -> Err
\* int: an int as it is; in lax mode also a float without fractional part, a
\* bool, and a numeric string whose value is integral.
ValidateInt(v, strict) ==
  CASE Tag(v) = "int" -> Ok(v)
    [] Tag(v) = "float" /\ ~strict ->
         IF v[2] % 10 = 0 THEN Ok(PyInt(v[2] \div 10)) ELSE Err
    [] Tag(v) = "bool" /\ ~strict -> Ok(PyInt(IF v[2] THEN 1 ELSE 0))
    [] Tag(v) = "str" /\ ~strict ->
         LET p == ParseTenths(v[2])
         IN IF IsOk(p) /\ p[2] % 10 = 0 THEN Ok(PyInt(p[2] \div 10)) ELSE Err
    [] OTHER -> Err

\* A float validator that takes numbers only, in both modes.
ValidateFloatNumbersOnly(v, strict) ==
  CASE Tag(v) = "float" -> Ok(v)
    [] Tag(v) = "int" -> Ok(PyFloat(10 * v[2]))
    [] OTHER -> Err
\* float: a float as it is and an int converted (both modes); in lax mode
\* also a bool and a numeric string.
ValidateFloat(v, strict) ==
  CASE Tag(v) = "float" -> Ok(v)
    [] Tag(v) = "int" -> Ok(PyFloat(10 * v[2]))
    [] Tag(v) = "bool" /\ ~strict -> Ok(PyFloat(IF v[2] THEN 10 ELSE 0))
    [] Tag(v) = "str" /\ ~strict ->
         LET p == ParseTenths(v[2])
         IN IF IsOk(p) THEN Ok(PyFloat(p[2])) ELSE Err
    [] OTHER -> Err

TrueWords == {<<"1">>, <<"t">>, <<"y">>, <<"o","n">>, <<"y","e","s">>,
              <<"t","r","u","e">>}
FalseWords == {<<"0">>, <<"f">>, <<"n">>, <<"o","f","f">>, <<"n","o">>,
               <<"f","a","l","s","e">>}

\* bool: a bool as it is; in lax mode also 0/1, 0.0/1.0 and the boolean words.
ValidateBool(v, strict) ==
  CASE Tag(v) = "bool" -> Ok(v)
    [] Tag(v) = "int" /\ ~strict ->
         IF v[2] \in {0, 1} THEN Ok(PyBool(v[2] = 1)) ELSE Err
    [] Tag(v) = "float" /\ ~strict ->
         IF v[2] \in {0, 10} THEN Ok(PyBool(v[2] = 10)) ELSE Err
    [] Tag(v) = "str" /\ ~strict ->
         IF lower(v[2]) \in TrueWords THEN Ok(PyBool(TRUE))
         ELSE IF lower(v[2]) \in FalseWords THEN Ok(PyBool(FALSE))
         ELSE Err
    [] OTHER -> Err

\* str: only a str; a number is never turned into text.
ValidateStr(v, strict) == IF Tag(v) = "str" THEN Ok(v) ELSE Err

\* datetime: in lax mode a number, or a numeric string, is a UNIX timestamp.
\* (ISO-8601 text is outside the strings the model draws.)
ValidateDatetime(v, strict) ==
  CASE Tag(v) = "int" /\ ~strict -> Ok(<<"datetime", 10 * v[2]>>)
    [] Tag(v) = "float" /\ ~strict -> Ok(<<"datetime", v[2]>>)
    [] Tag(v) = "str" /\ ~strict ->
         LET p == ParseTenths(v[2])
         IN IF IsOk(p) THEN Ok(<<"datetime", p[2]>>) ELSE Err
    [] OTHER -> Err

\* --------------------------------------------------------------- schemas
\* A field is <<type, default>>: the default is <<"required">> for a field
\* without one, else <<"default", value>>.
\* A required field declared as if it were Optional[T] = None.
RequiredAsOptional(T) == <<<<"opt", T>>, <<"default", <<"None">>>>>>
Required(T) == <<T, <<"required">>>>
Default(T, v) == <<T, <<"default", v>>>>
Optional(T) == Default(TOpt(T), None)

\* Optional[AnyHttpUrl | str]: any str is accepted (as a URL when it parses as
\* one, else as the str itself); the model keeps the text.
TUrlOrStr == <<"str">>
\* The chart rows had they been declared List[List[float]].
TChartFloats == TList(TList(TFloat))
\* List[List[Union[int, float]]]
TChart == TList(TList(TUnion(TInt, TFloat)))
\* The union had it been declared Union[Dict[str, float], float]: one numeric
\* representation for every number.
TCirculatingNumeric == TUnion(TDict(TFloat), TFloat)
\* Union[Dict[str, float], int]
TCirculating == TUnion(TDict(TFloat), TInt)

\* Protocol had `chains` been declared Optional[List[str]] = None.
ProtocolChainsOptional ==
  [id |-> Required(TStr), name |-> Required(TStr), address |-> Optional(TStr),
   symbol |-> Required(TStr), url |-> Optional(TUrlOrStr),
   description |-> Optional(TStr), chain |-> Optional(TStr),
   logo |-> Optional(TStr), chains |-> Optional(TList(TStr)),
   gecko_id |-> Optional(TStr), cmcId |-> Optional(TStr),
   category |-> Required(TStr), tvl |-> Optional(TFloat),
   chainTvls |-> Required(TDict(TFloat)), change_1h |-> Optional(TFloat),
   change_1d |-> Optional(TFloat), change_7d |-> Optional(TFloat)]

Protocol ==
  [id |-> Required(TStr), name |-> Required(TStr), address |-> Optional(TStr),
   symbol |-> Required(TStr), url |-> Optional(TUrlOrStr),
   description |-> Optional(TStr), chain |-> Optional(TStr),
   logo |-> Optional(TStr), chains |-> Required(TList(TStr)),
   gecko_id |-> Optional(TStr), cmcId |-> Optional(TStr),
   category |-> Required(TStr), tvl |-> Optional(TFloat),
   chainTvls |-> Required(TDict(TFloat)), change_1h |-> Optional(TFloat),
   change_1d |-> Optional(TFloat), change_7d |-> Optional(TFloat)]

\* Coin with `confidence: Optional[float]` declared without `= None`: None
\* is accepted but the key has to be present.
CoinConfidenceRequired ==
  [decimals |-> Optional(TInt), price |-> Optional(TFloat),
   symbol |-> Optional(TStr), timestamp |-> Optional(TInt),
   confidence |-> Required(TOpt(TFloat))]

Coin ==
  [decimals |-> Optional(TInt), price |-> Optional(TFloat),
   symbol |-> Optional(TStr), timestamp |-> Optional(TInt),
   confidence |-> Optional(TFloat)]

CoinPrice == [coins |-> Required(TDict(TModel("Coin")))]

HistoricalPrice ==
  [timestamp |-> Required(TInt), price |-> Required(TFloat),
   confidence |-> Optional(TFloat)]

CoinHistoricalData ==
  [symbol |-> Required(TStr),
   prices |-> Required(TList(TModel("HistoricalPrice")))]

BatchHistoricalPrices ==
  [coins |-> Required(TDict(TModel("CoinHistoricalData")))]

CoinChartData ==
  [decimals |-> Optional(TInt), confidence |-> Optional(TFloat),
   prices |-> Required(TList(TModel("HistoricalPrice"))),
   symbol |-> Required(TStr)]

PriceChart == [coins |-> Required(TDict(TModel("CoinChartData")))]

PercentageChange == [coins |-> Required(TDict(TFloat))]

Block == [height |-> Required(TInt), timestamp |-> Required(TInt)]

HistoricalTvl == [date |-> Required(TDatetime), tvl |-> Required(TFloat)]

TokenHistory == [date |-> Required(TInt), tokens |-> Required(TDict(TFloat))]

ProtocolHistoricalTvl ==
  [date |-> Required(TDatetime), totalLiquidityUSD |-> Required(TFloat)]

ProtocolChainTvlDetails ==
  [tvl |-> Default(TList(TModel("ProtocolHistoricalTvl")), PyList(<<>>)),
   tokens |-> Optional(TList(TModel("TokenHistory"))),
   tokensInUsd |-> Optional(TList(TModel("TokenHistory")))]

\* class ProtocolDetails(Protocol): the fields of Protocol, four overridden.
ProtocolDetails ==
  [tvl |-> Default(TList(TModel("ProtocolHistoricalTvl")), PyList(<<>>)),
   tokens |-> Optional(TList(TModel("TokenHistory"))),
   tokensInUsd |-> Optional(TList(TModel("TokenHistory"))),
   chainTvls |-> Required(TDict(TModel("ProtocolChainTvlDetails")))]
  @@ Protocol

Chain ==
  [gecko_id |-> Optional(TStr), tvl |-> Optional(TFloat),
   tokenSymbol |-> Optional(TStr), cmcId |-> Optional(TStr),
   name |-> Required(TStr), chainId |-> Optional(TInt)]

\* Stablecoin had `circulating` been declared with the union of the
\* circulatingPrev* fields.
StablecoinCirculatingUnion ==
  [id |-> Required(TStr), name |-> Required(TStr), symbol |-> Required(TStr),
   gecko_id |-> Optional(TStr), pegType |-> Required(TStr),
   priceSource |-> Optional(TStr), pegMechanism |-> Required(TStr),
   circulating |-> Required(TCirculating),
   circulatingPrevDay |-> Optional(TCirculating),
   circulatingPrevWeek |-> Optional(TCirculating),
   circulatingPrevMonth |-> Optional(TCirculating),
   price |-> Optional(TFloat),
   chainCirculating |-> Optional(TDict(TDict(TCirculating)))]

Stablecoin ==
  [id |-> Required(TStr), name |-> Required(TStr), symbol |-> Required(TStr),
   gecko_id |-> Optional(TStr), pegType |-> Required(TStr),
   priceSource |-> Optional(TStr), pegMechanism |-> Required(TStr),
   circulating |-> Required(TDict(TFloat)),
   circulatingPrevDay |-> Optional(TCirculating),
   circulatingPrevWeek |-> Optional(TCirculating),
   circulatingPrevMonth |-> Optional(TCirculating),
   price |-> Optional(TFloat),
   chainCirculating |-> Optional(TDict(TDict(TCirculating)))]

StablecoinChart ==
  [date |-> Required(TStr), totalCirculating |-> Required(TDict(TFloat)),
   totalCirculatingUSD |-> Required(TDict(TFloat))]

StablecoinHistorical ==
  [id |-> Required(TStr), name |-> Required(TStr), address |-> Optional(TStr),
   symbol |-> Required(TStr), url |-> Optional(TStr),
   description |-> Optional(TStr), mintRedeemDescription |-> Optional(TStr),
   onCoinGecko |-> Optional(TStr), gecko_id |-> Optional(TStr),
   cmcId |-> Optional(TStr), pegType |-> Required(TStr),
   pegMechanism |-> Required(TStr), priceSource |-> Optional(TStr),
   auditLinks |-> Optional(TList(TStr)), twitter |-> Optional(TStr),
   wiki |-> Optional(TStr), chainBalances |-> Optional(TDict(TDict(TAny)))]

StablecoinChainData ==
  [gecko_id |-> Optional(TStr), totalCirculatingUSD |-> Required(TDict(TFloat)),
   tokenSymbol |-> Optional(TStr), name |-> Required(TStr)]

StablecoinPrice ==
  [id |-> Required(TStr), price |-> Required(TFloat),
   timestamp |-> Required(TInt)]

Pool ==
  [chain |-> Required(TStr), project |-> Required(TStr),
   symbol |-> Required(TStr), tvlUsd |-> Required(TFloat),
   apyBase |-> Optional(TFloat), apyReward |-> Optional(TFloat),
   apy |-> Required(TFloat), rewardTokens |-> Optional(TList(TOpt(TStr))),
   pool |-> Required(TStr), apyPct1D |-> Optional(TFloat),
   apyPct7D |-> Optional(TFloat), apyPct30D |-> Optional(TFloat),
   stablecoin |-> Required(TBool), ilRisk |-> Optional(TStr),
   exposure |-> Optional(TStr), predictions |-> Optional(TDict(TAny))]

PoolChart ==
  [timestamp |-> Required(TInt), apy |-> Required(TFloat),
   tvlUsd |-> Required(TFloat)]

Dex ==
  [name |-> Required(TStr), category |-> Required(TStr),
   totalVolume |-> Required(TFloat), dailyVolume |-> Optional(TFloat),
   monthlyVolume |-> Optional(TFloat), chains |-> Optional(TList(TStr)),
   methodologyURL |-> Optional(TStr), methodology |-> Optional(TDict(TStr)),
   allChains |-> Optional(TList(TStr)), totalDataChart |-> Optional(TChart),
   totalDataChartBreakdown |-> Optional(TChart)]

DexOverview ==
  [totalDataChart |-> Required(TChart),
   totalDataChartBreakdown |-> Required(TChart),
   breakdown24h |-> Optional(TDict(TAny)),
   breakdown30d |-> Optional(TDict(TAny)), chain |-> Optional(TStr),
   allChains |-> Required(TList(TStr))]

Fee ==
  [name |-> Required(TStr), category |-> Required(TStr),
   dailyFees |-> Optional(TFloat), dailyRevenue |-> Optional(TFloat),
   totalFees |-> Required(TFloat), totalRevenue |-> Required(TFloat),
   chains |-> Optional(TList(TStr)), methodologyURL |-> Optional(TStr),
   methodology |-> Optional(TDict(TStr)), allChains |-> Optional(TList(TStr)),
   totalDataChart |-> Optional(TChart),
   totalDataChartBreakdown |-> Optional(TChart)]

FeeOverview ==
  [totalDataChart |-> Required(TChart),
   totalDataChartBreakdown |-> Required(TChart),
   breakdown24h |-> Optional(TDict(TAny)),
   breakdown30d |-> Optional(TDict(TAny)), chain |-> Optional(TStr),
   allChains |-> Required(TList(TStr))]

\* The fields of the model class of that name.
Schema(name) ==
  CASE name = "Protocol" -> Protocol
    [] name = "Coin" -> Coin
    [] name = "CoinPrice" -> CoinPrice
    [] name = "HistoricalPrice" -> HistoricalPrice
    [] name = "CoinHistoricalData" -> CoinHistoricalData
    [] name = "BatchHistoricalPrices" -> BatchHistoricalPrices
    [] name = "CoinChartData" -> CoinChartData
    [] name = "PriceChart" -> PriceChart
    [] name = "PercentageChange" -> PercentageChange
    [] name = "Block" -> Block
    [] name = "HistoricalTvl" -> HistoricalTvl
    [] name = "TokenHistory" -> TokenHistory
    [] name = "ProtocolHistoricalTvl" -> ProtocolHistoricalTvl
    [] name = "ProtocolChainTvlDetails" -> ProtocolChainTvlDetails
    [] name = "ProtocolDetails" -> ProtocolDetails
    [] name = "Chain" -> Chain
    [] name = "Stablecoin" -> Stablecoin
    [] name = "StablecoinChart" -> StablecoinChart
    [] name = "StablecoinHistorical" -> StablecoinHistorical
    [] name = "StablecoinChainData" -> StablecoinChainData
    [] name = "StablecoinPrice" -> StablecoinPrice
    [] name = "Pool" -> Pool
    [] name = "PoolChart" -> PoolChart
    [] name = "Dex" -> Dex
    [] name = "DexOverview" -> DexOverview
    [] name = "Fee" -> Fee
    [] name = "FeeOverview" -> FeeOverview

\* The TypeAdapter(List[...]) objects of models.py.
Protocols == TList(TModel("Protocol"))
HistoricalTvls == TList(TModel("HistoricalTvl"))
Chains == TList(TModel("Chain"))
Stablecoins == TList(TModel("Stablecoin"))
StablecoinCharts == TList(TModel("StablecoinChart"))
StablecoinChains == TList(TModel("StablecoinChainData"))
StablecoinPrices == TList(TModel("StablecoinPrice"))
Pools == TList(TModel("Pool"))
PoolCharts == TList(TModel("PoolChart"))

RECURSIVE Validate(_, _, _)

\* A dict decoder that loses a key of its input.
DictResultDropping(d, r) ==
  LET K == IF DOMAIN d = {} THEN {}
           ELSE DOMAIN d \ {CHOOSE k \in DOMAIN d : TRUE}
  IN [k \in K |-> r[k][2]]

\* The decoded dict of a Dict[str, T]: the keys of the input, as they are,
\* each with its validated value.
DictResult(d, r) == [k \in DOMAIN d |-> r[k][2]]

\* A list decoder that yields the elements in reverse order.
ListResultReversed(xs, r) == [i \in 1..Len(xs) |-> r[Len(xs) + 1 - i][2]]

\* The decoded list of a List[T]: one validated value per input element, in
\* the input's order.
ListResult(xs, r) == [i \in 1..Len(xs) |-> r[i][2]]

\* The value of a model field: the validated input when the key is present,
\* the default when it is absent and the field has one, else an error.
FieldResult(field, d, strict) ==
  IF DOMAIN d # {} /\ \E k \in DOMAIN d : k = field[1]
  THEN Validate(field[2][1], d[field[1]], strict)
  ELSE IF field[2][2][1] = "required" THEN Err ELSE Ok(field[2][2][2])

\* A model that rejects a dict with a key it does not declare (extra="forbid").
ValidateModelForbidExtra(name, v, strict) ==
  IF Tag(v) # "dict" THEN Err
  ELSE LET S == Schema(name)
           r == [f \in DOMAIN S |-> FieldResult(<<f, S[f]>>, v[2], strict)]
       IN IF (\A f \in DOMAIN S : IsOk(r[f])) /\ DOMAIN v[2] \subseteq DOMAIN S
          THEN Ok(<<"model", name, [f \in DOMAIN S |-> r[f][2]]>>)
          ELSE Err

\* A model from a dict: every declared field validated, undeclared keys
\* ignored (pydantic's default extra="ignore").
ValidateModel(name, v, strict) ==
  IF Tag(v) # "dict" THEN Err
  ELSE LET S == Schema(name)
           r == [f \in DOMAIN S |-> FieldResult(<<f, S[f]>>, v[2], strict)]
       IN IF \A f \in DOMAIN S : IsOk(r[f])
          THEN Ok(<<"model", name, [f \in DOMAIN S |-> r[f][2]]>>)
          ELSE Err

\* A union in smart mode: the first member that accepts the value strictly,
\* else (in lax mode) the first member that accepts it at all.
ValidateUnion(Ts, v, strict) ==
  LET s1 == Validate(Ts[1], v, TRUE)
      s2 == Validate(Ts[2], v, TRUE)
  IN IF IsOk(s1) THEN s1
     ELSE IF IsOk(s2) THEN s2
     ELSE IF strict THEN Err
     ELSE LET l1 == Validate(Ts[1], v, FALSE)
          IN IF IsOk(l1) THEN l1 ELSE Validate(Ts[2], v, FALSE)

\* A list validator that leaves invalid elements out instead of failing.
ValidateListSkipping(T, v, strict) ==
  IF Tag(v) # "list" THEN Err
  ELSE LET r == [i \in 1..Len(v[2]) |-> Validate(T, v[2][i], strict)]
           good == SelectSeq([i \in 1..Len(v[2]) |-> r[i]], IsOk)
       IN Ok(PyList([i \in 1..Len(good) |-> good[i][2]]))

\* List[T]: only a list, every element valid, else the whole list is invalid.
ValidateList(T, v, strict) ==
  IF Tag(v) # "list" THEN Err
  ELSE LET r == [i \in 1..Len(v[2]) |-> Validate(T, v[2][i], strict)]
       IN IF \A i \in 1..Len(v[2]) : IsOk(r[i])
          THEN Ok(PyList(ListResult(v[2], r)))
          ELSE Err

\* Dict[str, T]: only a dict, every value valid, else the whole dict is invalid.
ValidateDict(T, v, strict) ==
  IF Tag(v) # "dict" THEN Err
  ELSE LET r == [k \in DOMAIN v[2] |-> Validate(T, v[2][k], strict)]
       IN IF \A k \in DOMAIN v[2] : IsOk(r[k])
          THEN Ok(PyDict(DictResult(v[2], r)))
          ELSE Err

Validate(T, v, strict) ==
  CASE T[1] = "any" -> Ok(v)
    [] T[1] = "str" -> ValidateStr(v, strict)
    [] T[1] = "int" -> ValidateInt(v, strict)
    [] T[1] = "float" -> ValidateFloat(v, strict)
    [] T[1] = "bool" -> ValidateBool(v, strict)
    [] T[1] = "datetime" -> ValidateDatetime(v, strict)
    [] T[1] = "opt" ->
         IF Tag(v) = "None" THEN Ok(None) ELSE Validate(T[2], v, strict)
    [] T[1] = "list" -> ValidateList(T[2], v, strict)
    [] T[1] = "dict" -> ValidateDict(T[2], v, strict)
    [] T[1] = "union" -> ValidateUnion(T[2], v, strict)
    [] T[1] = "model" -> ValidateModel(T[2], v, strict)

\* BaseModel.model_validate(data) of the class `name`.
model_validate(name, data) == Validate(TModel(name), data, FALSE)

\* TypeAdapter.validate_python(data) of the adapter `T`.
validate_python(T, data) == Validate(T, data, FALSE)

\* ------------------------------------------------------------- requests
\* What a method hands to _request / _async_request: the URL (the f-string,
\* as text) and the params argument (None when the method passes none).
Request(url, params) == [method |-> "GET", url |-> url, params |-> params]

\* A params dict built from every candidate entry, supplied or not.
ParamsAll(K, all) == PyDict(all)

\* A dict literal with the keys K of the candidate entries `all`.
Params(K, all) == PyDict([k \in K |-> all[k]])

\* str(coins) of a Dict[str, List[int]], given as its items in insertion
\* order: "{'k': [1, 2], ...}".
ReprIntList(xs) ==
  <<"[">> \o join(<<", ">>, [i \in 1..Len(xs) |-> Digits(xs[i])]) \o <<"]">>
ReprCoins(items) ==
  <<"{">>
  \o join(<<", ">>, [i \in 1..Len(items) |->
        <<"'">> \o items[i][1] \o <<"'">> \o <<": ">> \o ReprIntList(items[i][2])])
  \o <<"}">>

\* ",".join(c.lower() for c in coins): the coin list re-cased on its way
\* into the path.
CoinsStrLower(coins) ==
  lower(join(<<",">>, [i \in 1..Len(coins[2]) |-> coins[2][i][2]]))

\* ",".join(coins) for a list of str values.
CoinsStr(coins) == join(<<",">>, [i \in 1..Len(coins[2]) |-> coins[2][i][2]])

get_protocols(self, a) == Request(self.BASE_URL \o <<"/protocols">>, None)

get_protocol(self, a) ==
  Request(self.BASE_URL \o <<"/protocol/">> \o Format(a.protocol_slug), None)

get_historical_chain_tvl(self, a) ==
  LET endpoint == IF Truthy(a.chain_slug)
                  THEN <<"/v2/historicalChainTvl">> \o <<"/">> \o Format(a.chain_slug)
                  ELSE <<"/v2/historicalChainTvl">>
  IN Request(self.BASE_URL \o endpoint, None)

get_protocol_tvl(self, a) ==
  Request(self.BASE_URL \o <<"/tvl/">> \o Format(a.protocol_slug), None)

get_chains(self, a) == Request(self.BASE_URL \o <<"/v2/chains">>, None)

get_current_prices(self, a) ==
  Request(self.COINS_URL \o <<"/prices/current/">> \o CoinsStr(a.coins),
          PyDict([searchWidth |-> a.search_width]))

get_historical_prices(self, a) ==
  Request(self.COINS_URL \o <<"/prices/historical/">> \o Format(a.timestamp)
            \o <<"/">> \o CoinsStr(a.coins),
          PyDict([searchWidth |-> a.search_width]))

get_batch_historical_prices(self, a) ==
  LET all == [coins |-> PyStr(ReprCoins(a.coins)), searchWidth |-> a.search_width]
      K == {"coins"} \cup (IF Truthy(a.search_width) THEN {"searchWidth"} ELSE {})
  IN Request(self.COINS_URL \o <<"/batchHistorical">>, Params(K, all))

get_price_chart(self, a) ==
  LET all == [start |-> a.start, end |-> a.end, span |-> a.span,
              period |-> a.period, searchWidth |-> a.search_width]
      K == {k \in DOMAIN all : Truthy(all[k])}
  IN Request(self.COINS_URL \o <<"/chart/">> \o CoinsStr(a.coins), Params(K, all))

get_price_percentage_change(self, a) ==
  LET all == [lookForward |-> a.look_forward, period |-> a.period,
              timestamp |-> a.timestamp]
      K == {"lookForward", "period"}
           \cup (IF Truthy(a.timestamp) THEN {"timestamp"} ELSE {})
  IN Request(self.COINS_URL \o <<"/percentage/">> \o CoinsStr(a.coins),
             Params(K, all))

get_first_prices(self, a) ==
  Request(self.COINS_URL \o <<"/prices/first/">> \o CoinsStr(a.coins), None)

get_block(self, a) ==
  Request(self.COINS_URL \o <<"/block/">> \o lower(Format(a.chain)) \o <<"/">>
            \o Format(a.timestamp), None)

get_block_async(self, a) ==
  Request(self.COINS_URL \o <<"/block/">> \o Format(a.chain) \o <<"/">>
            \o Format(a.timestamp), None)

get_stablecoins(self, a) ==
  Request(self.STABLECOINS_URL \o <<"/stablecoins">>,
          PyDict([includePrices |-> a.include_prices]))

get_stablecoin_charts(self, a) ==
  LET endpoint == IF Truthy(a.chain)
                  THEN <<"/stablecoincharts/">> \o Format(a.chain)
                  ELSE <<"/stablecoincharts/all">>
      K == IF Truthy(a.stablecoin) THEN {"stablecoin"} ELSE {}
  IN Request(self.STABLECOINS_URL \o endpoint,
             Params(K, [stablecoin |-> a.stablecoin]))

get_stablecoin_historical(self, a) ==
  Request(self.STABLECOINS_URL \o <<"/stablecoin/">> \o Format(a.asset_id), None)

get_stablecoin_chains(self, a) ==
  Request(self.STABLECOINS_URL \o <<"/stablecoinchains">>, None)

get_stablecoin_prices(self, a) ==
  Request(self.STABLECOINS_URL \o <<"/stablecoinprices">>, None)

get_pools(self, a) == Request(self.YIELDS_URL \o <<"/pools">>, None)

\* get_pool_chart sent to the coins host, whose API also has a /chart/ path.
get_pool_chart_coins(self, a) ==
  Request(self.COINS_URL \o <<"/chart/">> \o Format(a.pool_id), None)

get_pool_chart(self, a) ==
  Request(self.YIELDS_URL \o <<"/chart/">> \o Format(a.pool_id), None)

\* An endpoint that takes the chain segment whatever the chain is.
ChainEndpointAlways(base, chain) == base \o <<"/">> \o Format(chain)
\* endpoint = base; if chain: endpoint = f"{endpoint}/{chain}"
ChainEndpoint(base, chain) ==
  IF Truthy(chain) THEN base \o <<"/">> \o Format(chain) ELSE base

get_dexs(self, a) ==
  Request(self.BASE_URL \o ChainEndpoint(<<"/overview/dexs">>, a.chain),
          PyDict([excludeTotalDataChart |-> a.exclude_total_data_chart,
                  excludeTotalDataChartBreakdown |->
                    a.exclude_total_data_chart_breakdown]))

get_dex_summary(self, a) ==
  Request(self.BASE_URL \o <<"/summary/dexs/">> \o Format(a.protocol_slug),
          PyDict([excludeTotalDataChart |-> a.exclude_total_data_chart,
                  excludeTotalDataChartBreakdown |->
                    a.exclude_total_data_chart_breakdown]))

get_options_dexs(self, a) ==
  Request(self.BASE_URL \o ChainEndpoint(<<"/overview/options">>, a.chain),
          PyDict([excludeTotalDataChart |-> a.exclude_total_data_chart,
                  excludeTotalDataChartBreakdown |->
                    a.exclude_total_data_chart_breakdown,
                  dataType |-> a.data_type]))

get_options_dex_summary(self, a) ==
  Request(self.BASE_URL \o <<"/summary/options/">> \o Format(a.protocol_slug),
          PyDict([dataType |-> a.data_type]))

get_fees(self, a) ==
  Request(self.BASE_URL \o ChainEndpoint(<<"/overview/fees">>, a.chain),
          PyDict([excludeTotalDataChart |-> a.exclude_total_data_chart,
                  excludeTotalDataChartBreakdown |->
                    a.exclude_total_data_chart_breakdown,
                  dataType |-> a.data_type]))

get_fee_summary(self, a) ==
  Request(self.BASE_URL \o <<"/summary/fees/">> \o Format(a.protocol_slug),
          PyDict([dataType |-> a.data_type]))

Forms == {"sync", "async"}

\* The request the method `op` builds in the form `form`.  The async twin of
\* every method but get_block has the body of the blocking one, with await.
RequestOf(op, form, self, a) ==
  CASE op = "get_protocols" -> get_protocols(self, a)
    [] op = "get_protocol" -> get_protocol(self, a)
    [] op = "get_historical_chain_tvl" -> get_historical_chain_tvl(self, a)
    [] op = "get_protocol_tvl" -> get_protocol_tvl(self, a)
    [] op = "get_chains" -> get_chains(self, a)
    [] op = "get_current_prices" -> get_current_prices(self, a)
    [] op = "get_historical_prices" -> get_historical_prices(self, a)
    [] op = "get_batch_historical_prices" -> get_batch_historical_prices(self, a)
    [] op = "get_price_chart" -> get_price_chart(self, a)
    [] op = "get_price_percentage_change" -> get_price_percentage_change(self, a)
    [] op = "get_first_prices" -> get_first_prices(self, a)
    [] op = "get_block" ->
         IF form = "sync" THEN get_block(self, a) ELSE get_block_async(self, a)
    [] op = "get_stablecoins" -> get_stablecoins(self, a)
    [] op = "get_stablecoin_charts" -> get_stablecoin_charts(self, a)
    [] op = "get_stablecoin_historical" -> get_stablecoin_historical(self, a)
    [] op = "get_stablecoin_chains" -> get_stablecoin_chains(self, a)
    [] op = "get_stablecoin_prices" -> get_stablecoin_prices(self, a)
    [] op = "get_pools" -> get_pools(self, a)
    [] op = "get_pool_chart" -> get_pool_chart(self, a)
    [] op = "get_dexs" -> get_dexs(self, a)
    [] op = "get_dex_summary" -> get_dex_summary(self, a)
    [] op = "get_options_dexs" -> get_options_dexs(self, a)
    [] op = "get_options_dex_summary" -> get_options_dex_summary(self, a)
    [] op = "get_fees" -> get_fees(self, a)
    [] op = "get_fee_summary" -> get_fee_summary(self, a)

\* -------------------------------------------------------------- decoding
\* `key in data` for a parsed body: isinstance(data, dict) and key in data.
HasKey(data, key) ==
  Tag(data) = "dict" /\ DOMAIN data[2] # {} /\ key \in DOMAIN data[2]

\* What each method does with the data _request returned: Ok(value) is the
\* value it returns, Err the ValidationError it lets through.
get_protocols_result(data) == validate_python(Protocols, data)
get_protocol_result(data) == model_validate("ProtocolDetails", data)
get_historical_chain_tvl_result(data) == validate_python(HistoricalTvls, data)
\* return self._request(...): the parsed body itself, unvalidated.
get_protocol_tvl_result(data) == Ok(data)
get_chains_result(data) == validate_python(Chains, data)
get_current_prices_result(data) == model_validate("CoinPrice", data)
get_historical_prices_result(data) == model_validate("CoinPrice", data)
get_batch_historical_prices_result(data) ==
  model_validate("BatchHistoricalPrices", data)
get_price_chart_result(data) == model_validate("PriceChart", data)
get_price_percentage_change_result(data) ==
  model_validate("PercentageChange", data)
get_first_prices_result(data) == model_validate("CoinPrice", data)
get_block_result(data) == model_validate("Block", data)

\* get_stablecoins without the unwrapping of the envelope.
get_stablecoins_result_bare(data) == validate_python(Stablecoins, data)

\* The API returns {"peggedAssets": [...]}
get_stablecoins_result(data) ==
  IF HasKey(data, "peggedAssets")
  THEN validate_python(Stablecoins, data[2]["peggedAssets"])
  ELSE validate_python(Stablecoins, data)

get_stablecoin_charts_result(data) == validate_python(StablecoinCharts, data)
get_stablecoin_historical_result(data) ==
  model_validate("StablecoinHistorical", data)
get_stablecoin_chains_result(data) == validate_python(StablecoinChains, data)
get_stablecoin_prices_result(data) == validate_python(StablecoinPrices, data)

\* The API returns {"data": [...], "status": "success"}
get_pools_result(data) ==
  IF HasKey(data, "data")
  THEN validate_python(Pools, data[2]["data"])
  ELSE validate_python(Pools, data)

get_pool_chart_result(data) == validate_python(PoolCharts, data)
get_dexs_result(data) == model_validate("DexOverview", data)
get_dex_summary_result(data) == model_validate("Dex", data)
get_options_dexs_result(data) == model_validate("DexOverview", data)
get_options_dex_summary_result(data) == model_validate("Dex", data)
get_fees_result(data) == model_validate("FeeOverview", data)
get_fee_summary_result(data) == model_validate("Fee", data)

\* The same statements follow the request in the blocking and in the async
\* method of every operation.
ResultOf(op, data) ==
  CASE op = "get_protocols" -> get_protocols_result(data)
    [] op = "get_protocol" -> get_protocol_result(data)
    [] op = "get_historical_chain_tvl" -> get_historical_chain_tvl_result(data)
    [] op = "get_protocol_tvl" -> get_protocol_tvl_result(data)
    [] op = "get_chains" -> get_chains_result(data)
    [] op = "get_current_prices" -> get_current_prices_result(data)
    [] op = "get_historical_prices" -> get_historical_prices_result(data)
    [] op = "get_batch_historical_prices" ->
         get_batch_historical_prices_result(data)
    [] op = "get_price_chart" -> get_price_chart_result(data)
    [] op = "get_price_percentage_change" ->
         get_price_percentage_change_result(data)
    [] op = "get_first_prices" -> get_first_prices_result(data)
    [] op = "get_block" -> get_block_result(data)
    [] op = "get_stablecoins" -> get_stablecoins_result(data)
    [] op = "get_stablecoin_charts" -> get_stablecoin_charts_result(data)
    [] op = "get_stablecoin_historical" -> get_stablecoin_historical_result(data)
    [] op = "get_stablecoin_chains" -> get_stablecoin_chains_result(data)
    [] op = "get_stablecoin_prices" -> get_stablecoin_prices_result(data)
    [] op = "get_pools" -> get_pools_result(data)
    [] op = "get_pool_chart" -> get_pool_chart_result(data)
    [] op = "get_dexs" -> get_dexs_result(data)
    [] op = "get_dex_summary" -> get_dex_summary_result(data)
    [] op = "get_options_dexs" -> get_options_dexs_result(data)
    [] op = "get_options_dex_summary" -> get_options_dex_summary_result(data)
    [] op = "get_fees" -> get_fees_result(data)
    [] op = "get_fee_summary" -> get_fee_summary_result(data)

\* ------------------------------------------------------------- transport
\* What the transport does with a request: it delivers a response
\* [kind |-> "response", status_code, body] or fails with a transport-level
\* exception [kind |-> "error", cls].  A body is <<"json", v>>, text that
\* parses to the JSON value v, or <<"text", s>>, text that is not JSON.

\* An exception object: its class, its args, its __cause__ (None or
\* <<"exc", e>>) and the attributes its class adds.
Exception(cls, msg, cause, attrs) ==
  [cls |-> cls, args |-> <<PyStr(msg)>>, cause |-> cause, attrs |-> attrs]

Return(v) == <<"return", v>>
Raise(e) == <<"raise", e>>

\* Response.is_success
is_success(res) == 200 <= res.status_code /\ res.status_code <= 299

\* The message httpx gives an HTTPStatusError:
\* "{error_type} '{status_code} {reason_phrase}' for url '{url}'".
StatusMessage(res, req) ==
  LET c == res.status_code \div 100
      error_type == CASE c = 1 -> "Informational response"
                      [] c = 3 -> "Redirect response"
                      [] c = 4 -> "Client error"
                      [] c = 5 -> "Server error"
                      [] OTHER -> "Invalid status code"
  IN <<error_type, " '">> \o Digits(res.status_code) \o <<"' for url '">>
     \o req.url \o <<"'">>

\* A status check that lets every response below 500 through.
raise_for_status_server_errors(res, req) ==
  IF res.status_code < 500 THEN Return(None)
  ELSE Raise(Exception("HTTPStatusError", StatusMessage(res, req), None,
                       [request |-> req, response |-> res]))

\* Response.raise_for_status(): None for a 2xx response, else the
\* HTTPStatusError, which holds the request and the response.
raise_for_status(res, req) ==
  IF is_success(res) THEN Return(None)
  ELSE Raise(Exception("HTTPStatusError", StatusMessage(res, req), None,
                       [request |-> req, response |-> res]))

\* Response.json(): the parsed body, or the JSONDecodeError of json.loads.
json(res) ==
  IF res.body[1] = "json" THEN Return(res.body[2])
  ELSE Raise(Exception("JSONDecodeError", <<"Expecting value">>, None, <<>>))

\* raise ValueError(f"HTTP error: {e}") with the `from e` left out and the
\* original exception dropped.
HttpValueErrorNoCause(e) ==
  Exception("ValueError", <<"HTTP error: ">> \o e.args[1][2], None, <<>>)

\* raise ValueError(f"HTTP error: {e}") from e
HttpValueError(e) ==
  Exception("ValueError", <<"HTTP error: ">> \o e.args[1][2], <<"exc", e>>, <<>>)

\* _request with `except httpx.HTTPError`, the common base class of
\* HTTPStatusError and of the transport exceptions, in place of
\* `except httpx.HTTPStatusError`.
_request_catch_all(req, t) ==
  IF t.kind = "error"
  THEN Raise(Exception("ValueError", <<"HTTP error: ", "transport">>,
                       <<"exc", Exception(t.cls, <<"transport">>, None,
                                          [request |-> req])>>, <<>>))
  ELSE LET st == raise_for_status(t, req)
       IN IF st[1] = "raise" THEN Raise(HttpValueError(st[2])) ELSE json(t)

\* _request from the point where self.client.request(...) ends: `t` is what
\* the transport did.  Only httpx.HTTPStatusError is caught; a transport
\* exception and a JSONDecodeError pass through unchanged.
_request(req, t) ==
  IF t.kind = "error"
  THEN Raise(Exception(t.cls, <<"transport">>, None, [request |-> req]))
  ELSE LET st == raise_for_status(t, req)
       IN IF st[1] = "raise" THEN Raise(HttpValueError(st[2])) ELSE json(t)

\* asyncio.CancelledError: what the await raises in a task that is cancelled.
\* It derives from BaseException, not from Exception.
CancelledError == Exception("CancelledError", <<>>, None, <<>>)

\* _async_request with `except BaseException`: whatever ends the await,
\* a cancellation included, leaves as the HTTP error.
_async_request_catch_base(req, t) ==
  IF t.kind \in {"cancelled", "error"}
  THEN Raise(Exception("ValueError", <<"HTTP error: ">>, None, <<>>))
  ELSE LET st == raise_for_status(t, req)
       IN IF st[1] = "raise" THEN Raise(HttpValueError(st[2])) ELSE json(t)

\* _async_request, likewise, from the point where the awaited
\* self.async_client.request(...) ends: with a response, with a transport
\* exception, or (t.kind = "cancelled") with the CancelledError of a task
\* cancelled while it waits, which no except clause of the method matches.
_async_request(req, t) ==
  IF t.kind = "cancelled"
  THEN Raise(CancelledError)
  ELSE IF t.kind = "error"
  THEN Raise(Exception(t.cls, <<"transport">>, None, [request |-> req]))
  ELSE LET st == raise_for_status(t, req)
       IN IF st[1] = "raise" THEN Raise(HttpValueError(st[2])) ELSE json(t)

\* httpx refuses to send on a closed client:
\* RuntimeError("Cannot send a request, as the client has been closed.")
ClosedError ==
  Exception("RuntimeError",
            <<"Cannot send a request, as the client has been closed.">>,
            None, <<>>)

\* pydantic's ValidationError, which the methods let through.
ValidationError == Exception("ValidationError", <<"validation errors">>, None, <<>>)

\* How a call of `op` ends once the transport has done `t`: the method's
\* return value or the exception that leaves it.
Outcome(op, form, req, t) ==
  LET r == IF form = "sync" THEN _request(req, t) ELSE _async_request(req, t)
  IN IF r[1] = "raise" THEN r
     ELSE LET d == ResultOf(op, r[2])
          IN IF IsOk(d) THEN Return(d[2]) ELSE Raise(ValidationError)

\* ------------------------------------------------------ response bodies
\* The JSON values the service's bodies are drawn from.  A JSON string that
\* no code inspects is one atom; numeric text is one atom per character.
S(x) == PyStr(<<x>>)
Obj(r) == PyDict(r)
Arr(xs) == PyList(xs)

\* The object e with two keys more that no schema declares.
WithExtra(e) ==
  Obj([k \in DOMAIN e[2] \cup {"unknownKey", "unknownObject"} |->
         IF k = "unknownKey" THEN S("new")
         ELSE IF k = "unknownObject" THEN PyDict([nested |-> PyInt(1)])
         ELSE e[2][k]])
\* The body `good` with undeclared keys in the object, or in every object of
\* the array, that it is.
ExtraBodies(good) ==
  IF Tag(good) = "dict" THEN {WithExtra(good)}
  ELSE IF Tag(good) = "list" /\ \A i \in 1..Len(good[2]) : Tag(good[2][i]) = "dict"
       THEN {Arr([i \in 1..Len(good[2]) |-> WithExtra(good[2][i])])}
       ELSE {}

\* All arrays of at most MaxLen elements drawn from E.
Arrays(E) == {Arr(xs) : xs \in UNION {[1..n -> E] : n \in 0..MaxLen}}

ProtocolA ==
  Obj([id |-> S("1"), name |-> S("AAVE V3"), address |-> None,
       symbol |-> S("AAVE"), chains |-> Arr(<<S("Ethereum")>>),
       category |-> S("Lending"), tvl |-> PyFloat(15),
       chainTvls |-> Obj([Ethereum |-> PyFloat(15)])])
ProtocolB ==
  Obj([id |-> S("2"), name |-> S("Uniswap"), symbol |-> S("UNI"),
       logo |-> S("u.png"), chains |-> Arr(<<>>), category |-> S("Dexes"),
       chainTvls |-> Obj([Ethereum |-> PyInt(2), BSC |-> PyFloat(5)]),
       slug |-> S("uniswap")])
ProtocolBad ==
  Obj([name |-> S("NoId"), symbol |-> S("X"), chains |-> Arr(<<>>),
       category |-> S("Dexes"), chainTvls |-> Obj(<<>>)])

TvlPoint == Obj([date |-> PyInt(1), totalLiquidityUSD |-> PyFloat(15)])
ProtocolDetailsA ==
  Obj([id |-> S("1"), name |-> S("AAVE V3"), symbol |-> S("AAVE"),
       chains |-> Arr(<<S("Ethereum")>>), category |-> S("Lending"),
       tvl |-> Arr(<<TvlPoint>>),
       chainTvls |-> Obj([Ethereum |-> Obj([tvl |-> Arr(<<TvlPoint>>)])])])
ProtocolDetailsB ==
  Obj([id |-> S("2"), name |-> S("Uniswap"), symbol |-> S("UNI"),
       chains |-> Arr(<<>>), category |-> S("Dexes"), chainTvls |-> Obj(<<>>)])

HistoricalTvlA == Obj([date |-> PyInt(1), tvl |-> PyFloat(15)])
HistoricalTvlB == Obj([date |-> PyStr(<<"1","2">>), tvl |-> PyInt(3)])
HistoricalTvlBad == Obj([date |-> PyInt(1)])

ChainA ==
  Obj([gecko_id |-> S("ethereum"), tvl |-> PyFloat(15),
       tokenSymbol |-> S("ETH"), cmcId |-> S("1027"), name |-> S("Ethereum"),
       chainId |-> PyInt(1)])
ChainB == Obj([name |-> S("Solana"), chainId |-> None, gecko_id |-> None])
ChainBad == Obj([tvl |-> PyFloat(15), chainId |-> PyInt(1)])

Coin1 ==
  Obj([decimals |-> PyInt(8), price |-> PyFloat(15), symbol |-> S("ETH"),
       timestamp |-> PyInt(5), confidence |-> PyFloat(9)])
Coin2 == Obj([price |-> PyInt(2), symbol |-> S("WBTC"), timestamp |-> PyInt(5)])
CoinBad == Obj([price |-> S("abc")])
CoinNullConfidence ==
  Obj([decimals |-> PyInt(8), price |-> PyFloat(15), symbol |-> S("ETH"),
       timestamp |-> PyInt(5), confidence |-> None])
\* A coin whose price is the text "1.5", and one whose price is true.
CoinTextPrice == Obj([price |-> PyStr(<<"1", ".", "5">>), symbol |-> S("ETH")])
CoinBoolPrice == Obj([price |-> PyBool(TRUE), symbol |-> S("ETH")])
CoinPriceBodies ==
  {Obj([coins |-> Obj([k \in {"coingecko:ethereum"} |-> WithExtra(Coin1)])]),
   Obj([coins |-> Obj([k \in {"coingecko:ethereum"} |-> CoinTextPrice])]),
   Obj([coins |-> Obj([k \in {"coingecko:ethereum"} |-> CoinBoolPrice])]),
   Obj([coins |-> Obj(<<>>)]),
   Obj([coins |-> Obj([k \in {"coingecko:ethereum"} |-> CoinNullConfidence])]),
   Obj([coins |-> Obj([k \in {"coingecko:ethereum"} |-> Coin1])]),
   Obj([coins |-> Obj([k \in {"coingecko:ethereum", "ethereum:0xAb"} |->
                         IF k = "coingecko:ethereum" THEN Coin1 ELSE Coin2])]),
   Obj([coins |-> Obj([k \in {"coingecko:ethereum", "ethereum:0xAb"} |->
                         IF k = "coingecko:ethereum" THEN Coin1 ELSE CoinBad])]),
   Obj([coins |-> Arr(<<Coin1>>)]),
   Obj(<<>>), Arr(<<>>)}

PricePoint ==
  Obj([timestamp |-> PyInt(5), price |-> PyFloat(15), confidence |-> PyFloat(9)])
CoinSeries == Obj([symbol |-> S("ETH"), prices |-> Arr(<<PricePoint>>)])
CoinSeriesBad == Obj([prices |-> Arr(<<PricePoint>>)])
SeriesBodies ==
  {Obj([coins |-> Obj(<<>>)]),
   Obj([coins |-> Obj([k \in {"avax:0xB9"} |-> CoinSeries])]),
   Obj([coins |-> Obj([k \in {"avax:0xB9", "coingecko:ethereum"} |-> CoinSeries])]),
   Obj([coins |-> Obj([k \in {"avax:0xB9", "coingecko:ethereum"} |->
                         IF k = "avax:0xB9" THEN CoinSeries ELSE CoinSeriesBad])]),
   Obj(<<>>), None}

PercentageBodies ==
  {Obj([coins |-> Obj(<<>>)]),
   Obj([coins |-> Obj([k \in {"coingecko:ethereum"} |-> PyFloat(15)])]),
   Obj([coins |-> Obj([k \in {"coingecko:ethereum", "ethereum:0xAb"} |->
                         IF k = "coingecko:ethereum" THEN PyFloat(15) ELSE PyInt(2)])]),
   Obj([coins |-> Obj([k \in {"coingecko:ethereum", "ethereum:0xAb"} |->
                         IF k = "coingecko:ethereum" THEN PyFloat(15) ELSE None])]),
   Obj(<<>>), PyInt(1)}

\* A block whose height is the text "12" and whose timestamp is true.
BlockTextHeight ==
  Obj([height |-> PyStr(<<"1", "2">>), timestamp |-> PyBool(TRUE)])
BlockBodies ==
  {BlockTextHeight,
   Obj([height |-> S("abc"), timestamp |-> PyInt(5)]),
   Obj([height |-> PyInt(10), timestamp |-> PyInt(5)]),
   Obj([height |-> PyFloat(100), timestamp |-> PyStr(<<"5">>)]),
   Obj([height |-> PyInt(10)]),
   Obj([height |-> PyFloat(15), timestamp |-> PyInt(5)]),
   Arr(<<>>)}

\* A valid stablecoin element with the three circulatingPrev* fields as given
\* (a field given as <<"absent">> is left out of the object).
StablecoinWith(day, week, month) ==
  LET base == [id |-> S("1"), name |-> S("Tether"), symbol |-> S("USDT"),
               pegType |-> S("peggedUSD"), pegMechanism |-> S("fiat-backed"),
               circulating |-> Obj([peggedUSD |-> PyFloat(15)])]
      prev == [circulatingPrevDay |-> day, circulatingPrevWeek |-> week,
               circulatingPrevMonth |-> month]
      K == {f \in DOMAIN prev : prev[f] # <<"absent">>}
  IN Obj([f \in DOMAIN base \cup K |->
            IF f \in DOMAIN base THEN base[f] ELSE prev[f]])
EthMap == Obj([ethereum |-> PyFloat(10000)])
StablecoinA == StablecoinWith(EthMap, PyInt(0), <<"absent">>)
StablecoinB == StablecoinWith(PyInt(0), Obj([ethereum |-> PyInt(7), bsc |-> PyFloat(5)]), None)
StablecoinBad == StablecoinWith(PyFloat(5), EthMap, EthMap)
StablecoinTextPrev == StablecoinWith(S("abc"), None, <<"absent">>)
\* A stablecoin whose circulating is the bare number 0, valid otherwise.
StablecoinBareCirculating ==
  Obj([id |-> S("2"), name |-> S("Dai"), symbol |-> S("DAI"),
       pegType |-> S("peggedUSD"), pegMechanism |-> S("crypto-backed"),
       circulating |-> PyInt(0), circulatingPrevDay |-> PyInt(0)])
StablecoinTextInMap ==
  StablecoinWith(None, PyInt(3), Obj([ethereum |-> S("abc")]))

StablecoinChartA ==
  Obj([date |-> S("1609459200"), totalCirculating |-> Obj([peggedUSD |-> PyFloat(15)]),
       totalCirculatingUSD |-> Obj([peggedUSD |-> PyFloat(15)])])
StablecoinChartB ==
  Obj([date |-> S("1609545600"), totalCirculating |-> Obj([peggedUSD |-> PyInt(2)]),
       totalCirculatingUSD |-> Obj(<<>>)])
StablecoinChartBad ==
  Obj([date |-> PyInt(1), totalCirculating |-> Obj(<<>>),
       totalCirculatingUSD |-> Obj(<<>>)])

StablecoinHistoricalBodies ==
  {Obj([id |-> S("1"), name |-> S("Tether"), symbol |-> S("USDT"),
        pegType |-> S("peggedUSD"), pegMechanism |-> S("fiat-backed"),
        chainBalances |-> Obj([Ethereum |-> Obj([tokens |-> Arr(<<>>)])])]),
   Obj([id |-> S("1"), name |-> S("Tether"), symbol |-> S("USDT"),
        pegType |-> S("peggedUSD"), pegMechanism |-> S("fiat-backed"),
        auditLinks |-> None]),
   Obj([id |-> PyInt(1), name |-> S("Tether"), symbol |-> S("USDT"),
        pegType |-> S("peggedUSD"), pegMechanism |-> S("fiat-backed")]),
   Obj(<<>>)}

StablecoinChainA ==
  Obj([gecko_id |-> S("ethereum"), tokenSymbol |-> S("ETH"), name |-> S("Ethereum"),
       totalCirculatingUSD |-> Obj([peggedUSD |-> PyFloat(15)])])
StablecoinChainB ==
  Obj([gecko_id |-> None, name |-> S("Tron"), totalCirculatingUSD |-> Obj(<<>>)])
StablecoinChainBad == Obj([totalCirculatingUSD |-> Obj(<<>>)])

StablecoinPriceA == Obj([id |-> S("1"), price |-> PyFloat(10), timestamp |-> PyInt(5)])
StablecoinPriceB == Obj([id |-> S("2"), price |-> PyInt(1), timestamp |-> PyFloat(50)])
StablecoinPriceBad == Obj([id |-> S("1"), price |-> None, timestamp |-> PyInt(5)])

PoolA ==
  Obj([chain |-> S("Ethereum"), project |-> S("lido"), symbol |-> S("STETH"),
       tvlUsd |-> PyFloat(15), apy |-> PyFloat(35), pool |-> S("747c"),
       stablecoin |-> PyBool(FALSE), apyBase |-> PyFloat(35), apyReward |-> None])
PoolB ==
  Obj([chain |-> S("BSC"), project |-> S("venus"), symbol |-> S("USDT"),
       tvlUsd |-> PyInt(2), apy |-> PyInt(0), pool |-> S("a1b2"),
       stablecoin |-> PyBool(TRUE), rewardTokens |-> Arr(<<None, S("0xXVS")>>),
       predictions |-> Obj([predictedClass |-> None]), poolMeta |-> None])
PoolBad ==
  Obj([chain |-> S("Ethereum"), project |-> S("lido"), symbol |-> S("STETH"),
       tvlUsd |-> PyFloat(15), pool |-> S("747c"), stablecoin |-> PyBool(FALSE)])

PoolNullApy ==
  Obj([chain |-> S("Ethereum"), project |-> S("lido"), symbol |-> S("STETH"),
       tvlUsd |-> PyFloat(15), apy |-> None, pool |-> S("747c"),
       stablecoin |-> PyBool(FALSE)])
PoolTextApy ==
  Obj([chain |-> S("Ethereum"), project |-> S("lido"), symbol |-> S("STETH"),
       tvlUsd |-> PyFloat(15), apy |-> S("abc"), pool |-> S("747c"),
       stablecoin |-> PyBool(FALSE)])
ProtocolNullName ==
  Obj([id |-> S("3"), name |-> None, symbol |-> S("X"), chains |-> Arr(<<>>),
       category |-> S("Dexes"), chainTvls |-> Obj(<<>>)])
\* A protocol whose id is the number 1, valid otherwise.
ProtocolNumericId ==
  Obj([id |-> PyInt(1), name |-> S("AAVE V3"), symbol |-> S("AAVE"),
       chains |-> Arr(<<S("Ethereum")>>), category |-> S("Lending"),
       chainTvls |-> Obj(<<>>)])
\* A protocol without chains, valid otherwise.
ProtocolNoChains ==
  Obj([id |-> S("4"), name |-> S("NoChains"), symbol |-> S("X"),
       category |-> S("Dexes"), chainTvls |-> Obj(<<>>)])
ProtocolNoSymbol ==
  Obj([id |-> S("3"), name |-> S("NoSymbol"), chains |-> Arr(<<>>),
       category |-> S("Dexes"), chainTvls |-> Obj(<<>>)])

PoolChartA == Obj([timestamp |-> PyInt(5), apy |-> PyFloat(35), tvlUsd |-> PyFloat(15)])
PoolChartB == Obj([timestamp |-> PyInt(6), apy |-> PyInt(3), tvlUsd |-> PyInt(2)])
PoolChartBad == Obj([timestamp |-> PyInt(5), apy |-> None, tvlUsd |-> PyFloat(15)])

ChartRows == Arr(<<Arr(<<PyInt(5), PyFloat(15)>>), Arr(<<PyInt(6), PyInt(2)>>)>>)
\* Chart rows of the widths 0, 1 and 3.
OddRows ==
  Arr(<<Arr(<<>>), Arr(<<PyInt(5)>>), Arr(<<PyInt(6), PyFloat(15), PyInt(1)>>)>>)
\* A chart row holding a text that is no number.
TextRows == Arr(<<Arr(<<PyInt(5), S("abc")>>)>>)
OverviewBodies ==
  {Obj([totalDataChart |-> OddRows, totalDataChartBreakdown |-> ChartRows,
        allChains |-> Arr(<<S("Ethereum")>>)]),
   Obj([totalDataChart |-> ChartRows, totalDataChartBreakdown |-> TextRows,
        allChains |-> Arr(<<S("Ethereum")>>)]),
   Obj([totalDataChart |-> ChartRows, totalDataChartBreakdown |-> Arr(<<>>),
        allChains |-> Arr(<<S("Ethereum")>>), chain |-> None]),
   Obj([totalDataChart |-> Arr(<<>>), totalDataChartBreakdown |-> Arr(<<>>),
        allChains |-> Arr(<<>>), breakdown24h |-> Obj(<<>>), protocols |-> Arr(<<>>)]),
   Obj([allChains |-> Arr(<<S("Ethereum")>>), protocols |-> Arr(<<>>)]),
   Arr(<<>>)}
DexBodies ==
  {Obj([name |-> S("Uniswap"), category |-> S("Dexes"), totalVolume |-> PyFloat(15),
        totalDataChart |-> ChartRows, totalDataChartBreakdown |-> OddRows]),
   Obj([name |-> S("Uniswap"), category |-> S("Dexes"), totalVolume |-> PyFloat(15),
        totalDataChart |-> ChartRows]),
   Obj([name |-> S("Uniswap"), category |-> S("Dexes"), totalVolume |-> PyInt(2),
        chains |-> Arr(<<S("Ethereum")>>), methodology |-> None]),
   Obj([name |-> S("Uniswap"), total24h |-> PyFloat(15)]),
   None}
FeeBodies ==
  {Obj([name |-> S("Aave"), category |-> S("Lending"), totalFees |-> PyFloat(15),
        totalRevenue |-> PyFloat(5), totalDataChart |-> OddRows]),
   Obj([name |-> S("Aave"), category |-> S("Lending"), totalFees |-> PyFloat(15),
        totalRevenue |-> PyFloat(5), totalDataChart |-> ChartRows]),
   Obj([name |-> S("Aave"), category |-> S("Lending"), totalFees |-> PyInt(2),
        totalRevenue |-> PyInt(1), dailyFees |-> None]),
   Obj([name |-> S("Aave"), total24h |-> PyFloat(15)]),
   None}

\* A bare array, and the same array inside each envelope the service uses.
Enveloped(E) ==
  Arrays(E)
  \cup {Obj([peggedAssets |-> xs]) : xs \in Arrays(E)}
  \cup {Obj([data |-> xs, status |-> S("success")]) : xs \in Arrays(E)}
  \cup {Obj([peggedAssets |-> xs, chains |-> Arr(<<S("Ethereum")>>)]) :
          xs \in Arrays(E)}
  \cup {Obj([data |-> xs]) : xs \in Arrays(E)}
  \cup {Obj([peggedAssets |-> None]), Obj([status |-> S("success")])}

\* The JSON values a 2xx response of `op` may hold.
JsonBodies(op) ==
  CASE op = "get_protocols" ->
         Arrays({ProtocolA, ProtocolB, ProtocolBad})
         \cup {None, Obj(<<>>), Arr(<<ProtocolNullName>>),
               Arr(<<ProtocolNumericId>>), Arr(<<ProtocolNoChains>>),
               Arr(<<WithExtra(ProtocolA), ProtocolB>>),
               Arr(<<ProtocolA, ProtocolNoSymbol>>)}
    [] op = "get_protocol" ->
         {ProtocolDetailsA, ProtocolDetailsB, ProtocolA, ProtocolNoChains,
          Arr(<<>>)}
    [] op = "get_historical_chain_tvl" ->
         Arrays({HistoricalTvlA, HistoricalTvlB, HistoricalTvlBad}) \cup {None}
    [] op = "get_protocol_tvl" ->
         {PyFloat(15), PyInt(3), Obj([message |-> S("x")]), S("x"), None}
    [] op = "get_chains" -> Arrays({ChainA, ChainB, ChainBad}) \cup {Obj(<<>>)}
    [] op \in {"get_current_prices", "get_historical_prices", "get_first_prices"} ->
         CoinPriceBodies
    [] op \in {"get_batch_historical_prices", "get_price_chart"} -> SeriesBodies
    [] op = "get_price_percentage_change" -> PercentageBodies
    [] op = "get_block" -> BlockBodies
    [] op = "get_stablecoins" ->
         Enveloped({StablecoinA, StablecoinB, StablecoinBad})
         \cup {Obj([peggedAssets |-> Arr(<<StablecoinTextPrev>>)]),
               Obj([peggedAssets |-> Arr(<<StablecoinB, StablecoinTextInMap>>)]),
               Obj([peggedAssets |-> Arr(<<StablecoinBareCirculating>>)]),
               Arr(<<StablecoinA, StablecoinBareCirculating>>)}
    [] op = "get_stablecoin_charts" ->
         Arrays({StablecoinChartA, StablecoinChartB, StablecoinChartBad})
         \cup {Obj(<<>>)}
    [] op = "get_stablecoin_historical" -> StablecoinHistoricalBodies
    [] op = "get_stablecoin_chains" ->
         Arrays({StablecoinChainA, StablecoinChainB, StablecoinChainBad})
         \cup {None}
    [] op = "get_stablecoin_prices" ->
         Arrays({StablecoinPriceA, StablecoinPriceB, StablecoinPriceBad})
         \cup {None}
    [] op = "get_pools" ->
         Enveloped({PoolA, PoolB, PoolBad})
         \cup {Arr(<<PoolNullApy>>),
               Obj([data |-> Arr(<<WithExtra(PoolA), PoolB>>)]),
               Obj([data |-> Arr(<<PoolA, PoolTextApy>>), status |-> S("success")])}
    [] op = "get_pool_chart" ->
         Arrays({PoolChartA, PoolChartB, PoolChartBad})
         \cup {Obj([data |-> Arr(<<PoolChartA>>), status |-> S("success")])}
    [] op \in {"get_dexs", "get_options_dexs", "get_fees"} -> OverviewBodies
    [] op \in {"get_dex_summary", "get_options_dex_summary"} -> DexBodies
    [] op = "get_fee_summary" -> FeeBodies

\* The operations of the client (each has a blocking and a non-blocking form).
Ops ==
  {"get_protocols", "get_protocol", "get_historical_chain_tvl",
   "get_protocol_tvl", "get_chains", "get_current_prices",
   "get_historical_prices", "get_batch_historical_prices", "get_price_chart",
   "get_price_percentage_change", "get_first_prices", "get_block",
   "get_stablecoins", "get_stablecoin_charts", "get_stablecoin_historical",
   "get_stablecoin_chains", "get_stablecoin_prices", "get_pools",
   "get_pool_chart", "get_dexs", "get_dex_summary", "get_options_dexs",
   "get_options_dex_summary", "get_fees", "get_fee_summary"}

\* A body of `op` that its decoder accepts: what an error response may still
\* carry.
ValidBody(op) == CHOOSE v \in JsonBodies(op) : IsOk(ResultOf(op, v))

\* The body `good`, wrapped in an object under one key.
EnvelopeKeys == {"data", "peggedAssets"}
WrappedBodies(good) == {Obj([k \in {key} |-> good]) : key \in EnvelopeKeys}

\* The httpx.TransportError subclasses the transport fails with here.
TransportErrors == {"ConnectError", "ReadTimeout"}

\* What the transport may do with a request of `op`, `good` being a body the
\* operation decodes.
ResponsesWith(op, good) ==
  {[kind |-> "response", status_code |-> 200, body |-> <<"json", v>>] :
     v \in JsonBodies(op) \cup WrappedBodies(good) \cup ExtraBodies(good)}
  \cup {[kind |-> "response", status_code |-> c, body |-> b] :
          c \in {301, 404, 500},
          b \in {<<"text", <<"Not Found">>>>, <<"json", good>>}}
  \cup {[kind |-> "response", status_code |-> c,
         body |-> <<"text", <<"<html>">>>>] : c \in {200, 299}}
  \cup {[kind |-> "error", cls |-> c] : c \in TransportErrors}
Responses(op) == ResponsesWith(op, ValidBody(op))

\* ------------------------------------------------------------ arguments
\* The argument tuples callers pass.  Caller text is one atom per character;
\* a default of the signature is the literal of the source.
Slugs == {PyStr(<<"a","a","v","e">>), PyStr(<<"n","o","-","s","l","u","g">>)}
ChainNames == {PyStr(<<"E","t","h">>), PyStr(<<"b","s","c">>)}
OptionalChains == {None, PyStr(<<>>)} \cup ChainNames
Timestamps == {PyInt(0), PyInt(7), PyInt(MaxTs)}
CoinLists ==
  {PyList(<<PyStr(<<"c","g",":","e","t","h">>)>>),
   PyList(<<PyStr(<<"e","t","h",":","0","x","A","b">>),
            PyStr(<<"c","g",":","b","t","c">>)>>)}
Width4h == PyStr(<<"4h">>)
Width1h == PyStr(<<"1","h">>)
Period24h == PyStr(<<"24h">>)
Period1d == PyStr(<<"1","d">>)
BatchCoins ==
  {<<>>,
   <<<<<<"a","v","a","x",":","0","x","B","9">>, <<7, MaxTs>>>>>>,
   <<<<<<"a","v","a","x",":","0","x","B","9">>, <<7>>>>,
     <<<<"c","g",":","e","t","h">>, <<0, MaxTs>>>>>>}
DataTypes == {PyStr(<<"dailyNotionalVolume">>), PyStr(<<"dailyPremiumVolume">>)}
FeeDataTypes == {PyStr(<<"dailyFees">>), PyStr(<<"dailyRevenue">>)}

\* get_price_chart: nothing optional supplied, one optional supplied, all.
PriceChartOptions ==
  LET none == [start |-> None, end |-> None, span |-> None, period |-> None,
               search_width |-> None]
  IN {none,
      [none EXCEPT !.start = PyInt(0)], [none EXCEPT !.start = PyInt(7)],
      [none EXCEPT !.end = PyInt(MaxTs)],
      [none EXCEPT !.span = PyInt(0)], [none EXCEPT !.span = PyInt(7)],
      [none EXCEPT !.period = PyStr(<<>>)], [none EXCEPT !.period = Period1d],
      [none EXCEPT !.search_width = Width1h],
      [start |-> PyInt(7), end |-> PyInt(MaxTs), span |-> PyInt(7),
       period |-> Period1d, search_width |-> Width1h]}

ArgsOf(op) ==
  CASE op \in {"get_protocols", "get_chains", "get_stablecoin_chains",
               "get_stablecoin_prices", "get_pools"} -> {<<>>}
    [] op \in {"get_protocol", "get_protocol_tvl"} ->
         {[protocol_slug |-> x] : x \in Slugs}
    [] op = "get_historical_chain_tvl" ->
         {[chain_slug |-> x] : x \in OptionalChains}
    [] op = "get_current_prices" ->
         {[coins |-> c, search_width |-> w] :
            c \in CoinLists, w \in {Width4h, Width1h}}
    [] op = "get_historical_prices" ->
         {[timestamp |-> t, coins |-> c, search_width |-> w] :
            t \in Timestamps, c \in CoinLists, w \in {Width4h, Width1h}}
    [] op = "get_batch_historical_prices" ->
         {[coins |-> c, search_width |-> w] :
            c \in BatchCoins, w \in {None, PyStr(<<>>), Width1h}}
    [] op = "get_price_chart" ->
         {[coins |-> c, start |-> o.start, end |-> o.end, span |-> o.span,
           period |-> o.period, search_width |-> o.search_width] :
            c \in CoinLists, o \in PriceChartOptions}
    [] op = "get_price_percentage_change" ->
         {[coins |-> c, timestamp |-> t, look_forward |-> PyBool(f), period |-> p] :
            c \in CoinLists, t \in {None, PyInt(0), PyInt(7)}, f \in BOOLEAN,
            p \in {Period24h, Period1d}}
    [] op = "get_first_prices" -> {[coins |-> c] : c \in CoinLists}
    [] op = "get_block" ->
         {[chain |-> c, timestamp |-> t] : c \in ChainNames, t \in Timestamps}
    [] op = "get_stablecoins" -> {[include_prices |-> PyBool(b)] : b \in BOOLEAN}
    [] op = "get_stablecoin_charts" ->
         {[chain |-> c, stablecoin |-> x] :
            c \in OptionalChains, x \in {None, PyInt(0), PyInt(1)}}
    [] op = "get_stablecoin_historical" ->
         {[asset_id |-> x] : x \in {PyInt(1), PyInt(MaxTs)}}
    [] op = "get_pool_chart" -> {[pool_id |-> x] : x \in Slugs}
    [] op = "get_dexs" ->
         {[chain |-> c, exclude_total_data_chart |-> PyBool(x),
           exclude_total_data_chart_breakdown |-> PyBool(y)] :
            c \in OptionalChains, x \in BOOLEAN, y \in BOOLEAN}
    [] op = "get_dex_summary" ->
         {[protocol_slug |-> s, exclude_total_data_chart |-> PyBool(x),
           exclude_total_data_chart_breakdown |-> PyBool(y)] :
            s \in Slugs, x \in BOOLEAN, y \in BOOLEAN}
    [] op = "get_options_dexs" ->
         {[chain |-> c, exclude_total_data_chart |-> PyBool(x),
           exclude_total_data_chart_breakdown |-> PyBool(x), data_type |-> d] :
            c \in OptionalChains, x \in BOOLEAN, d \in DataTypes}
    [] op = "get_options_dex_summary" ->
         {[protocol_slug |-> s, data_type |-> d] : s \in Slugs, d \in DataTypes}
    [] op = "get_fees" ->
         {[chain |-> c, exclude_total_data_chart |-> PyBool(x),
           exclude_total_data_chart_breakdown |-> PyBool(x), data_type |-> d] :
            c \in OptionalChains, x \in BOOLEAN, d \in FeeDataTypes}
    [] op = "get_fee_summary" ->
         {[protocol_slug |-> s, data_type |-> d] : s \in Slugs, d \in FeeDataTypes}


\* ----------------------------------------------------------- the client
\* llama: the DefiLlama object (its two httpx clients and its four hosts).
\* call:  the call in progress: pc is "idle" (no call), "sent" (the request
\*        is with the transport) or "done" (the method has returned or
\*        raised: outcome); nreq counts the requests it handed the transport.
\* loop:  the event loop of a caller that runs non-blocking calls
\*        concurrently: its tasks, each the call of one task, and the
\*        requests the non-blocking client was handed, in the order of issue.
VARIABLES llama, call, loop
vars == <<llama, call, loop>>

NoCall ==
  [pc |-> "idle", op |-> "none", form |-> "none", args |-> <<>>,
   request |-> None, nreq |-> 0, response |-> None, outcome |-> None]

\* The tasks of the event loop, none of them in a call, and nothing issued.
Tasks == 1..2
NoTasks == [tasks |-> [i \in Tasks |-> NoCall], wire |-> <<>>]

\* DefiLlama.__init__
Init ==
  /\ llama = [client |-> "open", async_client |-> "open",
              BASE_URL |-> <<"https://api.llama.fi">>,
              COINS_URL |-> <<"https://coins.llama.fi">>,
              STABLECOINS_URL |-> <<"https://stablecoins.llama.fi">>,
              YIELDS_URL |-> <<"https://yields.llama.fi">>]
  /\ call = NoCall
  /\ loop = NoTasks

\* Both forms sending on the blocking client.
TransportOfShared(self, form) == self.client
\* The httpx client a form sends on.
TransportOf(self, form) ==
  IF form = "sync" THEN self.client ELSE self.async_client

\* The method up to self.client.request(...) / await
\* self.async_client.request(...): the request is built and handed to the
\* transport, which refuses it when the client has been closed.
Send(self, op, form, a) ==
  LET req == RequestOf(op, form, self, a)
      c == [pc |-> "sent", op |-> op, form |-> form, args |-> a,
            request |-> req, nreq |-> 0, response |-> None, outcome |-> None]
  IN IF TransportOf(self, form) = "open"
     THEN [c EXCEPT !.nreq = 1]
     ELSE [c EXCEPT !.pc = "done", !.outcome = Raise(ClosedError)]

\* A method that sends the request once more after a failed attempt.
FinishRetry(c, t) ==
  IF c.nreq < 2 /\ (t.kind = "error" \/ ~is_success(t))
  THEN [c EXCEPT !.nreq = @ + 1]
  ELSE [c EXCEPT !.pc = "done", !.response = t,
                 !.outcome = Outcome(c.op, c.form, c.request, t)]

\* The rest of the method once the transport has done `t`: no second request,
\* the call ends with the outcome.
Finish(c, t) ==
  [c EXCEPT !.pc = "done", !.response = t,
            !.outcome = Outcome(c.op, c.form, c.request, t)]

\* A caller calls the method `op` in the form `form` with the arguments `a`.
Call(op, form, a) ==
  /\ call.pc = "idle"
  /\ call' = Send(llama, op, form, a)
  /\ UNCHANGED <<llama, loop>>

\* A method that, when the transport fails, also closes the client it sent on.
ReceiveClosing(t) ==
  /\ call.pc = "sent"
  /\ call' = Finish(call, t)
  /\ llama' = IF t.kind = "error"
              THEN IF call.form = "sync"
                   THEN [llama EXCEPT !.client = "closed"]
                   ELSE [llama EXCEPT !.async_client = "closed"]
              ELSE llama
  /\ UNCHANGED loop

\* The transport answers, or fails, and the method runs to its end.
Receive(t) ==
  /\ call.pc = "sent"
  /\ call' = Finish(call, t)
  /\ UNCHANGED <<llama, loop>>

\* The caller cancels the task of a non-blocking call while it awaits the
\* transport: the await ends in CancelledError and the request is abandoned;
\* the exception leaves the method at the await, so nothing is decoded.
Cancel ==
  /\ call.pc = "sent"
  /\ call.form = "async"
  /\ call' = [call EXCEPT
                !.pc = "done", !.response = [kind |-> "cancelled"],
                !.outcome = _async_request(call.request, [kind |-> "cancelled"])]
  /\ UNCHANGED <<llama, loop>>

\* The caller has the outcome; the next call may start.
Returned ==
  /\ call.pc = "done"
  /\ call' = NoCall
  /\ UNCHANGED <<llama, loop>>

\* A close() that releases both sessions.
close_both ==
  /\ llama' = [llama EXCEPT !.client = "closed", !.async_client = "closed"]
  /\ UNCHANGED <<call, loop>>

\* DefiLlama.close(): self.client.close()
close ==
  /\ llama' = [llama EXCEPT !.client = "closed"]
  /\ UNCHANGED <<call, loop>>

\* DefiLlama.aclose(): await self.async_client.aclose()
aclose ==
  /\ llama' = [llama EXCEPT !.async_client = "closed"]
  /\ UNCHANGED <<call, loop>>

Next ==
  \/ \E op \in Ops, form \in Forms : \E a \in ArgsOf(op) : Call(op, form, a)
  \/ call.pc = "sent" /\ \E t \in Responses(call.op) : Receive(t)
  \/ Cancel
  \/ Returned
  \/ close
  \/ aclose

Spec == Init /\ [][Next]_vars

\* ------------------------------------------------- concurrent async calls
\* The calls the tasks make: <<operation, arguments>>.
ConcurrentCalls ==
  {<<op, a>> : op \in {"get_chains"}, a \in ArgsOf("get_chains")}
  \cup {<<op, a>> : op \in {"get_protocol_tvl"}, a \in ArgsOf("get_protocol_tvl")}

\* A task that shares the request in flight of another task that asked for
\* the same: no request of its own is issued.
StartCoalescing(i, op, a) ==
  LET c == Send(llama, op, "async", a)
      same == \E k \in 1..Len(loop.wire) : loop.wire[k][2] = c.request
  IN /\ loop.tasks[i].pc = "idle"
     /\ loop' = [tasks |-> [loop.tasks EXCEPT ![i] = c],
                 wire |-> IF c.nreq = 1 /\ ~same
                          THEN Append(loop.wire, <<i, c.request>>)
                          ELSE loop.wire]
     /\ UNCHANGED <<llama, call>>

\* Task i calls `await llama.<op>_async(...)`: the coroutine runs to
\* `await self.async_client.request(...)`, which issues the request.
Start(i, op, a) ==
  LET c == Send(llama, op, "async", a)
  IN /\ loop.tasks[i].pc = "idle"
     /\ loop' = [tasks |-> [loop.tasks EXCEPT ![i] = c],
                 wire |-> IF c.nreq = 1
                          THEN Append(loop.wire, <<i, c.request>>)
                          ELSE loop.wire]
     /\ UNCHANGED <<llama, call>>

\* The transport answers the request of task i, or fails it, and the
\* coroutine of task i runs to its end.
Deliver(i, t) ==
  /\ loop.tasks[i].pc = "sent"
  /\ loop' = [loop EXCEPT !.tasks[i] = Finish(loop.tasks[i], t)]
  /\ UNCHANGED <<llama, call>>

\* Task i is cancelled while it awaits the transport.
CancelTask(i) ==
  /\ loop.tasks[i].pc = "sent"
  /\ loop' = [loop EXCEPT
                !.tasks[i] =
                  [loop.tasks[i] EXCEPT
                     !.pc = "done", !.response = [kind |-> "cancelled"],
                     !.outcome = _async_request(loop.tasks[i].request,
                                                [kind |-> "cancelled"])]]
  /\ UNCHANGED <<llama, call>>

NextConcurrent ==
  \/ \E i \in Tasks : \E c \in ConcurrentCalls : Start(i, c[1], c[2])
  \/ \E i \in Tasks :
        loop.tasks[i].pc = "sent"
        /\ \E t \in Responses(loop.tasks[i].op) : Deliver(i, t)
  \/ \E i \in Tasks : CancelTask(i)

SpecConcurrent == Init /\ [][NextConcurrent]_vars

\* ============================================================ properties
\* The call has ended after the transport answered (or failed): the transport
\* was open when the request was handed to it.
Answered == call.pc = "done" /\ call.nreq = 1
Replied == Answered /\ call.response.kind = "response"
NonSuccess == Replied /\ ~is_success(call.response)
TransportFailed == Answered /\ call.response.kind = "error"
JsonReplied ==
  Replied /\ is_success(call.response) /\ call.response.body[1] = "json"
InvalidBody == JsonReplied /\ ~IsOk(ResultOf(call.op, call.response.body[2]))
Raised == call.outcome[1] = "raise"
Returns == call.outcome[1] = "return"
\* The class of the exception the call ended in ("none" if it returned).
ErrorKind == IF Raised THEN call.outcome[2].cls ELSE "none"

CollectionOps ==
  {"get_protocols", "get_historical_chain_tvl", "get_chains",
   "get_stablecoins", "get_stablecoin_charts", "get_stablecoin_chains",
   "get_stablecoin_prices", "get_pools", "get_pool_chart"}
PriceOps ==
  {"get_current_prices", "get_historical_prices", "get_first_prices",
   "get_price_chart", "get_price_percentage_change",
   "get_batch_historical_prices"}

\* The entity an element of a collection operation's array decodes to.
ElementOf(op) ==
  CASE op = "get_protocols" -> "Protocol"
    [] op = "get_historical_chain_tvl" -> "HistoricalTvl"
    [] op = "get_chains" -> "Chain"
    [] op = "get_stablecoins" -> "Stablecoin"
    [] op = "get_stablecoin_charts" -> "StablecoinChart"
    [] op = "get_stablecoin_chains" -> "StablecoinChainData"
    [] op = "get_stablecoin_prices" -> "StablecoinPrice"
    [] op = "get_pools" -> "Pool"
    [] op = "get_pool_chart" -> "PoolChart"

\* The entity the body of a record operation decodes to.
RecordOf(op) ==
  CASE op = "get_protocol" -> "ProtocolDetails"
    [] op \in {"get_current_prices", "get_historical_prices",
               "get_first_prices"} -> "CoinPrice"
    [] op = "get_batch_historical_prices" -> "BatchHistoricalPrices"
    [] op = "get_price_chart" -> "PriceChart"
    [] op = "get_price_percentage_change" -> "PercentageChange"
    [] op = "get_block" -> "Block"
    [] op = "get_stablecoin_historical" -> "StablecoinHistorical"
    [] op \in {"get_dexs", "get_options_dexs"} -> "DexOverview"
    [] op \in {"get_dex_summary", "get_options_dex_summary"} -> "Dex"
    [] op = "get_fees" -> "FeeOverview"
    [] op = "get_fee_summary" -> "Fee"
RecordOps ==
  {"get_protocol", "get_stablecoin_historical", "get_block", "get_dexs",
   "get_options_dexs", "get_dex_summary", "get_options_dex_summary",
   "get_fees", "get_fee_summary"} \cup PriceOps

EnvelopeKey(op) == IF op = "get_stablecoins" THEN "peggedAssets" ELSE "data"

\* The raw JSON array of a collection operation's body: the body, or the
\* value under the envelope key on the two enveloped endpoints.
RawArray(op, body) ==
  IF op \in {"get_stablecoins", "get_pools"} /\ HasKey(body, EnvelopeKey(op))
  THEN body[2][EnvelopeKey(op)]
  ELSE body

\* decode(e): the decoding of one raw element on its own.
Decode(name, e) == model_validate(name, e)

\* sub occurs in s as a contiguous run.
Contains(s, sub) ==
  \E i \in 0..(Len(s) - Len(sub)) :
     \A j \in 1..Len(sub) : s[i + j] = sub[j]

\* C1: the three failure kinds end a call in three different exception
\* classes, and the class alone tells which one occurred: a non-2xx response
\* ends in (exactly) ValueError and nothing else does, a 2xx JSON body that
\* fails the schema ends in ValidationError and nothing else does, a transport
\* failure ends in the transport's exception class and nothing else does.
C1_KindsDistinguishable ==
  Answered =>
    /\ NonSuccess <=> ErrorKind = "ValueError"
    /\ InvalidBody <=> ErrorKind = "ValidationError"
    /\ TransportFailed <=> ErrorKind \in TransportErrors
    /\ {"ValueError", "ValidationError"} \cap TransportErrors = {}

\* C1 witness: a blocking call whose transport failed ended in the
\* transport's exception class.
C1_Witness ==
  /\ TransportFailed /\ call.form = "sync" /\ call.op = "get_pools"
  /\ ErrorKind = "ConnectError"

\* C2: get_protocol / get_protocol_async on a non-2xx response end in the
\* "HTTP error: ..." ValueError whatever the body is; never in a
\* ValidationError, never in a decoded ProtocolDetails.
C2_StatusBeforeDecoding ==
  (NonSuccess /\ call.op = "get_protocol") =>
    /\ Raised
    /\ call.outcome[2].cls = "ValueError"
    /\ call.outcome[2].args[1][2][1] = "HTTP error: "

\* C2 witness: get_protocol_async got a 404 whose body is a JSON document the
\* ProtocolDetails schema accepts, and ended in the HTTP error.
C2_Witness ==
  /\ NonSuccess /\ call.op = "get_protocol" /\ call.form = "async"
  /\ call.response.status_code = 404
  /\ call.response.body[1] = "json"
  /\ IsOk(get_protocol_result(call.response.body[2]))
  /\ ErrorKind = "ValueError"

\* The data an exception object itself holds: its args and the attributes of
\* its class.
DataOf(e) ==
  {e.args[i] : i \in DOMAIN e.args} \cup {e.attrs[k] : k \in DOMAIN e.attrs}

\* C3 (as claimed): the error raised for a non-2xx response holds, as its own
\* data, the status code and the raw response body.
C3_CarriesStatusAndBody ==
  NonSuccess =>
    /\ Raised
    /\ \E x \in DataOf(call.outcome[2]) :
          x[1] = "int" /\ x[2] = call.response.status_code
    /\ \E x \in DataOf(call.outcome[2]) :
          x[1] \in {"text", "json"} /\ x = call.response.body

\* C3 (amended): the error raised for a non-2xx response is a ValueError whose
\* only data is its message, "HTTP error: " followed by httpx's status
\* message, which has the status code in decimal; the status code and the raw
\* body are data of its __cause__, the HTTPStatusError, through its response.
C3_StatusInMessageBodyInCause ==
  NonSuccess =>
    /\ Raised
    /\ LET e == call.outcome[2]
       IN /\ e.cls = "ValueError"
          /\ DataOf(e) = {e.args[1]}
          /\ e.args[1][1] = "str"
          /\ e.args[1][2] =
               <<"HTTP error: ">> \o StatusMessage(call.response, call.request)
          /\ Contains(e.args[1][2], Digits(call.response.status_code))
          /\ e.cause[1] = "exc"
          /\ e.cause[2].cls = "HTTPStatusError"
          /\ e.cause[2].attrs.response.status_code = call.response.status_code
          /\ e.cause[2].attrs.response.body = call.response.body

\* C3 witness: a 500 with a text body ended get_fees in the ValueError whose
\* cause holds that response.
C3_Witness ==
  /\ NonSuccess /\ call.op = "get_fees" /\ call.form = "sync"
  /\ call.response.status_code = 500
  /\ call.response.body = <<"text", <<"Not Found">>>>
  /\ Raised
  /\ call.outcome[2].cause[1] = "exc"
  /\ call.outcome[2].cause[2].attrs.response = call.response

\* C4 (as claimed): every call that has ended has issued exactly one request.
C4_ExactlyOneRequest == call.pc = "done" => call.nreq = 1

\* C4 (amended): a call issues one request when its transport is open and
\* none when it is closed (it then ends at once in httpx's RuntimeError);
\* it never issues a second one, whatever the first one came to.
C4_AtMostOneRequest ==
  /\ call.nreq <= 1
  /\ call.pc = "sent" => call.nreq = 1
  /\ call.pc = "done" =>
       (call.nreq = 0 <=> call.outcome = Raise(ClosedError))

\* C4 witness: a call has ended in an error after a failed request, having
\* issued one request.
C4_Witness ==
  /\ TransportFailed /\ call.op = "get_chains" /\ call.nreq = 1 /\ Raised

OtherForm(form) == IF form = "sync" THEN "async" ELSE "sync"

\* The result or the error kind of an outcome.
Kind(o) == IF o[1] = "raise" THEN <<"raise", o[2].cls>> ELSE o

\* C5 (as claimed): the two forms of an operation build the same request from
\* the same arguments and, given the same response, end in value-equal
\* results or the same error kind.
C5_FormsAgree ==
  /\ call.pc # "idle" =>
       call.request = RequestOf(call.op, OtherForm(call.form), llama, call.args)
  /\ (Replied \/ TransportFailed) =>
       Kind(call.outcome) =
         Kind(Outcome(call.op, OtherForm(call.form),
                      RequestOf(call.op, OtherForm(call.form), llama, call.args),
                      call.response))

\* C6: on get_stablecoins (key peggedAssets) and get_pools (key data), a body
\* that holds the array under the envelope key ends the call exactly as the
\* bare array does, whatever else the envelope holds, and a returned result is
\* the list of the decoded elements.
C6_EnvelopeExact ==
  (JsonReplied /\ call.op \in {"get_stablecoins", "get_pools"}
     /\ HasKey(call.response.body[2], EnvelopeKey(call.op))) =>
    LET inner == call.response.body[2][2][EnvelopeKey(call.op)]
        bare == [call.response EXCEPT !.body = <<"json", inner>>]
        d == [i \in 1..Len(inner[2]) |-> Decode(ElementOf(call.op), inner[2][i])]
    IN /\ call.outcome = Outcome(call.op, call.form, call.request, bare)
       /\ (Tag(inner) = "list" /\ \A i \in 1..Len(inner[2]) : IsOk(d[i])) =>
            call.outcome = Return(PyList([i \in 1..Len(inner[2]) |-> d[i][2]]))

\* C6 witness: get_pools returned two pools from {"data": [a, b],
\* "status": "success"}.
C6_Witness ==
  /\ JsonReplied /\ call.op = "get_pools"
  /\ call.response.body[2] =
       Obj([data |-> Arr(<<PoolA, PoolB>>), status |-> S("success")])
  /\ Returns /\ Len(call.outcome[2][2]) = 2

\* C7: a collection operation that returns, returns a list as long as the raw
\* array whose i-th element is the decoding of the i-th raw element.
C7_OrderAndLength ==
  (JsonReplied /\ call.op \in CollectionOps /\ Returns) =>
    LET raw == RawArray(call.op, call.response.body[2])
        res == call.outcome[2]
    IN /\ Tag(raw) = "list" /\ Tag(res) = "list"
       /\ Len(res[2]) = Len(raw[2])
       /\ \A i \in 1..Len(raw[2]) :
            Ok(res[2][i]) = Decode(ElementOf(call.op), raw[2][i])

\* C7 witness: get_chains returned two different chains in the order of the
\* response.
C7_Witness ==
  /\ JsonReplied /\ call.op = "get_chains" /\ Returns
  /\ call.response.body[2] = Arr(<<ChainA, ChainB>>)
  /\ Len(call.outcome[2][2]) = 2
  /\ call.outcome[2][2][1] # call.outcome[2][2][2]

\* Some element of the raw array, or some declared field of the record, is
\* one its schema rejects.
HasInvalidPart ==
  /\ JsonReplied
  /\ LET body == call.response.body[2]
     IN \/ /\ call.op \in CollectionOps
           /\ Tag(RawArray(call.op, body)) = "list"
           /\ \E i \in 1..Len(RawArray(call.op, body)[2]) :
                ~IsOk(Decode(ElementOf(call.op), RawArray(call.op, body)[2][i]))
        \/ /\ call.op \in RecordOps
           /\ Tag(body) = "dict"
           /\ \E f \in DOMAIN Schema(RecordOf(call.op)) :
                ~IsOk(FieldResult(<<f, Schema(RecordOf(call.op))[f]>>,
                                  body[2], FALSE))

\* C8: a non-2xx response, a transport failure, a 2xx body that is not JSON,
\* or a body with a single invalid element or field ends the call in an
\* error: nothing is returned.
C8_NoPartialResult ==
  (Answered /\ (NonSuccess \/ TransportFailed \/ HasInvalidPart
                  \/ (Replied /\ call.response.body[1] = "text"))) =>
    Raised /\ ~Returns

\* C8 witness: get_pools got [valid, invalid] and ended in a ValidationError.
C8_Witness ==
  /\ JsonReplied /\ call.op = "get_pools"
  /\ call.response.body[2] = Arr(<<PoolA, PoolBad>>)
  /\ HasInvalidPart /\ ErrorKind = "ValidationError"

PrevFields ==
  {"circulatingPrevDay", "circulatingPrevWeek", "circulatingPrevMonth"}
\* 1000.0 is 10000 tenths.
EthereumMapDecoded == PyDict([k \in {"ethereum"} |-> PyFloat(10000)])

\* C9: in every Stablecoin returned, a circulatingPrev* field given as a map
\* is a map with the same keys (as {"ethereum": 1000.0} exactly), and one
\* given as an integer is that integer (0 is the int 0): the variant is kept.
C9_UnionVariantKept ==
  (JsonReplied /\ call.op = "get_stablecoins" /\ Returns) =>
    LET raw == RawArray(call.op, call.response.body[2])[2]
        res == call.outcome[2][2]
    IN \A i \in 1..Len(raw) : \A f \in PrevFields \cap DOMAIN raw[i][2] :
         LET x == raw[i][2][f]
             y == res[i][3][f]
         IN /\ Tag(x) = "dict" =>
                 Tag(y) = "dict" /\ DOMAIN y[2] = DOMAIN x[2]
            /\ x = Obj([ethereum |-> PyFloat(10000)]) => y = EthereumMapDecoded
            /\ Tag(x) = "int" => y = x
            /\ x = PyInt(0) => y = PyInt(0) /\ y # PyFloat(0)

\* C9 witness: a returned Stablecoin whose circulatingPrevDay is the map
\* {"ethereum": 1000.0} and whose circulatingPrevWeek is the int 0.
C9_Witness ==
  /\ JsonReplied /\ call.op = "get_stablecoins" /\ Returns
  /\ call.response.body[2] = Obj([peggedAssets |-> Arr(<<StablecoinA>>)])
  /\ call.outcome[2][2][1][3].circulatingPrevDay = EthereumMapDecoded
  /\ call.outcome[2][2][1][3].circulatingPrevWeek = PyInt(0)

\* C10: a price operation that returns, returns a coins map whose key set is
\* the key set of the response's coins object.
C10_CoinKeysKept ==
  (JsonReplied /\ call.op \in PriceOps /\ Returns) =>
    DOMAIN call.outcome[2][3].coins[2] = DOMAIN call.response.body[2][2].coins[2]

\* C10 witness: get_current_prices returned the keys "coingecko:ethereum" and
\* "ethereum:0xAb" as the service sent them.
C10_Witness ==
  /\ JsonReplied /\ call.op = "get_current_prices" /\ Returns
  /\ DOMAIN call.outcome[2][3].coins[2] = {"coingecko:ethereum", "ethereum:0xAb"}

\* The operations that put the coin list in the path.
CoinPathOps ==
  {"get_current_prices", "get_historical_prices", "get_price_chart",
   "get_price_percentage_change", "get_first_prices"}
\* The path text that precedes a final path segment.
SegmentLeads ==
  {"/", "/prices/current/", "/prices/historical/", "/chart/", "/percentage/",
   "/prices/first/"}
\* The final path segment of a URL: what follows the last lead.
LastSegment(url) ==
  LET I == {i \in 1..Len(url) : url[i] \in SegmentLeads}
      last == CHOOSE i \in I : \A j \in I : j <= i
  IN SubSeq(url, last + 1, Len(url))
\* The pieces of a text between its commas.
RECURSIVE SplitCommas(_)
SplitCommas(s) ==
  IF \A i \in 1..Len(s) : s[i] # ","
  THEN <<s>>
  ELSE LET c == CHOOSE i \in 1..Len(s) :
                   s[i] = "," /\ \A j \in 1..(i - 1) : s[j] # ","
       IN <<SubSeq(s, 1, c - 1)>> \o SplitCommas(SubSeq(s, c + 1, Len(s)))

\* C11: for the operations with the coin list in the path, the final path
\* segment, cut at its commas, is the caller's list: the same elements, in
\* the same order, character for character; and the query parameters hold
\* no coins entry.
C11_CoinsInPath ==
  (call.pc # "idle" /\ call.op \in CoinPathOps) =>
    /\ SplitCommas(LastSegment(call.request.url)) =
         [i \in 1..Len(call.args.coins[2]) |-> call.args.coins[2][i][2]]
    /\ ~HasKey(call.request.params, "coins")

\* C11 witness: get_price_chart was called with ["eth:0xAb", "cg:btc"] and
\* the path ends in eth:0xAb,cg:btc.
C11_Witness ==
  /\ call.pc = "sent" /\ call.op = "get_price_chart"
  /\ Len(call.args.coins[2]) = 2
  /\ LastSegment(call.request.url) =
       <<"e","t","h",":","0","x","A","b",",","c","g",":","b","t","c">>

\* The parameters declared Optional[...] = None that go to the query string:
\* <<argument, query parameter>>.
OptionalParams(op) ==
  CASE op = "get_batch_historical_prices" -> {<<"search_width", "searchWidth">>}
    [] op = "get_price_chart" ->
         {<<"start", "start">>, <<"end", "end">>, <<"span", "span">>,
          <<"period", "period">>, <<"search_width", "searchWidth">>}
    [] op = "get_price_percentage_change" -> {<<"timestamp", "timestamp">>}
    [] op = "get_stablecoin_charts" -> {<<"stablecoin", "stablecoin">>}
    [] OTHER -> {}

GeneralOps ==
  {"get_protocols", "get_protocol", "get_historical_chain_tvl",
   "get_protocol_tvl", "get_chains", "get_dexs", "get_dex_summary",
   "get_options_dexs", "get_options_dex_summary", "get_fees",
   "get_fee_summary"}
CoinsOps ==
  {"get_current_prices", "get_historical_prices",
   "get_batch_historical_prices", "get_price_chart",
   "get_price_percentage_change", "get_first_prices", "get_block"}
StablecoinOps ==
  {"get_stablecoins", "get_stablecoin_charts", "get_stablecoin_historical",
   "get_stablecoin_chains", "get_stablecoin_prices"}
YieldOps == {"get_pools", "get_pool_chart"}
HostOf(op) ==
  CASE op \in GeneralOps -> "https://api.llama.fi"
    [] op \in CoinsOps -> "https://coins.llama.fi"
    [] op \in StablecoinOps -> "https://stablecoins.llama.fi"
    [] op \in YieldOps -> "https://yields.llama.fi"

\* C13: the URL of every request starts with the host its operation is bound
\* to, in both forms and whatever happened before, and the four host values
\* of the client are those of its construction in every reachable state.
C13_HostBinding ==
  /\ Ops = GeneralOps \cup CoinsOps \cup StablecoinOps \cup YieldOps
  /\ call.pc # "idle" => call.request.url[1] = HostOf(call.op)
  /\ llama.BASE_URL = <<"https://api.llama.fi">>
  /\ llama.COINS_URL = <<"https://coins.llama.fi">>
  /\ llama.STABLECOINS_URL = <<"https://stablecoins.llama.fi">>
  /\ llama.YIELDS_URL = <<"https://yields.llama.fi">>

\* C13 witness: get_pool_chart_async, called after the blocking client was
\* closed, sent its request to the yields host.
C13_Witness ==
  /\ call.pc = "sent" /\ call.op = "get_pool_chart" /\ call.form = "async"
  /\ llama.client = "closed"
  /\ call.request.url[1] = "https://yields.llama.fi"

\* C14: a step of a data call (a step that moves the call in progress on)
\* leaves every field of the client as it was, the request a call sends is
\* the one its own arguments give, and the outcome of an answered call is the
\* one its own request and its own response give.
C14_NoRetainedState ==
  [][call'.pc # call.pc =>
       /\ llama' = llama
       /\ call'.pc # "idle" =>
            call'.request = RequestOf(call'.op, call'.form, llama, call'.args)
       /\ (call'.pc = "done" /\ call'.nreq = 1) =>
            call'.outcome =
              Outcome(call'.op, call'.form, call'.request, call'.response)]_vars

\* C14 witness: a call has failed on its transport and both transport
\* handles are as the constructor left them.
C14_Witness ==
  /\ TransportFailed
  /\ llama.client = "open" /\ llama.async_client = "open"
  /\ llama.BASE_URL = <<"https://api.llama.fi">>

\* C15 (as claimed): once close or aclose has returned (a transport is
\* closed), the client holds no open transport: both sessions are released.
C15_ShutdownReleasesBoth ==
  (llama.client = "closed" \/ llama.async_client = "closed") =>
    (llama.client = "closed" /\ llama.async_client = "closed")

\* C15 (amended): a shutdown step releases one session and leaves the other
\* as it was: close() the blocking one, aclose() the non-blocking one; a
\* released session stays released, so the client holds no open transport
\* once both close() and aclose() have returned, and not before.
C15_ShutdownReleasesOwn ==
  [][llama' # llama =>
       \/ /\ llama.client = "open" /\ llama'.client = "closed"
          /\ llama'.async_client = llama.async_client
       \/ /\ llama.async_client = "open" /\ llama'.async_client = "closed"
          /\ llama'.client = llama.client]_vars

\* C15 witness: close() has returned and the non-blocking session is still
\* open.
C15_Witness ==
  /\ llama.client = "closed" /\ llama.async_client = "open"
  /\ call.pc = "sent" /\ call.form = "async"

\* The call was cancelled while its request was in flight.
Cancelled == Answered /\ call.response.kind = "cancelled"

OmittedIn(e, F) == {k \in F : k \notin DOMAIN e[2] \/ Tag(e[2][k]) = "None"}
\* e with those fields given the value v.
FilledIn(e, F, v) ==
  Obj([k \in DOMAIN e[2] \cup F |->
         IF k \in OmittedIn(e, F) THEN v ELSE e[2][k]])
\* Decoding e with the fields of F omitted succeeds whenever decoding it with
\* them present does, gives None for the omitted fields and the same value
\* for every other field.
OmissionHarmless(name, e, F, v) ==
  LET d == Decode(name, e)
      df == Decode(name, FilledIn(e, F, v))
  IN IsOk(df) =>
       /\ IsOk(d)
       /\ \A f \in DOMAIN Schema(name) :
            d[2][3][f] = IF f \in OmittedIn(e, F) THEN None ELSE df[2][3][f]

OmittedProtocolFields == {"address", "logo", "gecko_id"}
CoinPriceOps ==
  {"get_current_prices", "get_historical_prices", "get_first_prices"}

\* C17: a Protocol element with address, logo or gecko_id missing or null,
\* and a Coin with confidence missing or null, decode as they would with the
\* field present, but with None in that field; the omission fails no call.
C17_OmittedDecodesToNone ==
  /\ (JsonReplied /\ call.op = "get_protocols"
        /\ Tag(call.response.body[2]) = "list") =>
       LET raw == call.response.body[2][2]
       IN /\ \A i \in 1..Len(raw) :
               OmissionHarmless("Protocol", raw[i], OmittedProtocolFields, S("x"))
          /\ (\A i \in 1..Len(raw) :
                IsOk(Decode("Protocol",
                            FilledIn(raw[i], OmittedProtocolFields, S("x")))))
               => Returns
  /\ (JsonReplied /\ call.op \in CoinPriceOps
        /\ HasKey(call.response.body[2], "coins")
        /\ Tag(call.response.body[2][2].coins) = "dict") =>
       LET raw == call.response.body[2][2].coins[2]
       IN /\ \A k \in DOMAIN raw :
               OmissionHarmless("Coin", raw[k], {"confidence"}, PyFloat(9))
          /\ (\A k \in DOMAIN raw :
                IsOk(Decode("Coin", FilledIn(raw[k], {"confidence"}, PyFloat(9)))))
               => Returns

\* C17 witness: get_protocols returned a protocol whose address is null and
\* whose logo and gecko_id are missing, each decoded to None.
C17_Witness ==
  /\ JsonReplied /\ call.op = "get_protocols" /\ Returns
  /\ call.response.body[2] = Arr(<<ProtocolA>>)
  /\ OmittedIn(ProtocolA, OmittedProtocolFields) = OmittedProtocolFields
  /\ \A f \in OmittedProtocolFields : call.outcome[2][2][1][3][f] = None
  /\ call.outcome[2][2][1][3].name = S("AAVE V3")

\* Some field of F is missing from the raw object e or null in it.
LacksSome(e, F) == \E f \in F : f \notin DOMAIN e[2] \/ Tag(e[2][f]) = "None"
RequiredProtocolFields == {"id", "name", "symbol"}
\* The raw object has no apy that is a number: none, null, or text that
\* is no number.
LacksNumericApy(e) == LacksSome(e, {"apy"}) \/ e[2].apy = S("abc")

\* C18: get_protocols fails with a ValidationError when an element has id,
\* name or symbol missing or null, and get_pools when an element has no
\* numeric apy; every Protocol returned has id, name and symbol (text) and
\* every Pool returned has apy (a float).
C18_RequiredOrFail ==
  /\ (JsonReplied /\ call.op = "get_protocols"
        /\ Tag(call.response.body[2]) = "list") =>
       LET raw == call.response.body[2][2]
       IN /\ (\E i \in 1..Len(raw) : LacksSome(raw[i], RequiredProtocolFields))
               => ErrorKind = "ValidationError"
          /\ Returns =>
               \A i \in 1..Len(raw) : \A f \in RequiredProtocolFields :
                  Tag(call.outcome[2][2][i][3][f]) = "str"
  /\ (JsonReplied /\ call.op = "get_pools"
        /\ Tag(RawArray(call.op, call.response.body[2])) = "list") =>
       LET raw == RawArray(call.op, call.response.body[2])[2]
       IN /\ (\E i \in 1..Len(raw) : LacksNumericApy(raw[i]))
               => ErrorKind = "ValidationError"
          /\ Returns =>
               \A i \in 1..Len(raw) :
                  Tag(call.outcome[2][2][i][3].apy) = "float"

\* C18 witness: get_protocols got [valid, one without symbol] and failed with
\* a ValidationError.
C18_Witness ==
  /\ JsonReplied /\ call.op = "get_protocols"
  /\ call.response.body[2] = Arr(<<ProtocolA, ProtocolNoSymbol>>)
  /\ ErrorKind = "ValidationError"

\* The envelope key the operation itself strips, if it has one.
OwnEnvelopeKeys(op) ==
  CASE op = "get_stablecoins" -> {"peggedAssets"}
    [] op = "get_pools" -> {"data"}
    [] OTHER -> {}
\* The 2xx JSON body is an object under an envelope key that is not the
\* operation's own (and it has not the operation's own key either).
WrappedInForeignKey ==
  /\ JsonReplied
  /\ \E k \in EnvelopeKeys \ OwnEnvelopeKeys(call.op) :
        HasKey(call.response.body[2], k)
  /\ \A k \in OwnEnvelopeKeys(call.op) : ~HasKey(call.response.body[2], k)
\* On the operations in `ops`, a body wrapped in a foreign key ends in a
\* ValidationError; the two enveloped operations decode what is under
\* their own key.
WrappedFails(ops) ==
  /\ (WrappedInForeignKey /\ call.op \in ops) => ErrorKind = "ValidationError"
  /\ (JsonReplied /\ call.op \in ops
        /\ \E k \in OwnEnvelopeKeys(call.op) : HasKey(call.response.body[2], k)) =>
       LET d == validate_python(
                  IF call.op = "get_stablecoins" THEN Stablecoins ELSE Pools,
                  call.response.body[2][2][EnvelopeKey(call.op)])
       IN IF IsOk(d) THEN call.outcome = Return(d[2])
          ELSE ErrorKind = "ValidationError"

\* C19: only get_stablecoins strips peggedAssets and only get_pools strips
\* data; on every operation an object body wrapped in a key that is not the
\* operation's own envelope key ends in a ValidationError.
C19_ForeignEnvelopeFails == WrappedFails(Ops)

\* The same on every operation that has a decoder (all but get_protocol_tvl).
C19_ForeignEnvelopeFailsWhereDecoded == WrappedFails(Ops \ {"get_protocol_tvl"})

\* get_protocol_tvl got the body {"data": <a number>} with status 200 and
\* returned that object.
C19_TvlReturnsWrapped ==
  /\ WrappedInForeignKey /\ call.op = "get_protocol_tvl"
  /\ Returns /\ call.outcome[2] = call.response.body[2]

\* The raw element without its circulatingPrev* fields.
WithoutPrev(e) == Obj([f \in DOMAIN e[2] \ PrevFields |-> e[2][f]])
IsNumber(x) == Tag(x) \in {"int", "float"}
\* A map of string to number.
IsNumberMap(x) == Tag(x) = "dict" /\ \A k \in DOMAIN x[2] : IsNumber(x[2][k])
\* A number with a fractional part (0.5 is 5 tenths).
IsFractional(x) == Tag(x) = "float" /\ x[2] % 10 # 0
\* A value neither variant takes: text that is no number, or a map with
\* such a text as a value.
MatchesNeither(x) ==
  \/ x = S("abc")
  \/ Tag(x) = "dict" /\ \E k \in DOMAIN x[2] : x[2][k] = S("abc")
\* The raw array get_stablecoins decodes, when the body holds one.
StablecoinsReplied ==
  /\ JsonReplied /\ call.op = "get_stablecoins"
  /\ Tag(RawArray(call.op, call.response.body[2])) = "list"

\* C20 as stated: the circulatingPrev* fields never fail the enclosing
\* Stablecoin (elements that decode without those fields make the call
\* return), and a non-integer number decodes to the numeric variant.
C20_UnionNeverFails ==
  StablecoinsReplied =>
    LET raw == RawArray(call.op, call.response.body[2])[2]
    IN (\A i \in 1..Len(raw) : IsOk(Decode("Stablecoin", WithoutPrev(raw[i]))))
         => /\ Returns
            /\ \A i \in 1..Len(raw) : \A f \in PrevFields \cap DOMAIN raw[i][2] :
                 IsNumber(raw[i][2][f]) => IsNumber(call.outcome[2][2][i][3][f])

\* C20: a circulatingPrev* field given as a map of string to number decodes
\* to the map variant with the same keys, one given as an integer to that
\* integer, and one that is null or missing to None; a number with a
\* fractional part (0.5) or a value neither variant takes fails the call
\* with a ValidationError.
C20_UnionDecodesOrFails ==
  StablecoinsReplied =>
    LET raw == RawArray(call.op, call.response.body[2])[2]
    IN /\ (\E i \in 1..Len(raw) : \E f \in PrevFields \cap DOMAIN raw[i][2] :
             IsFractional(raw[i][2][f]) \/ MatchesNeither(raw[i][2][f]))
            => ErrorKind = "ValidationError"
       /\ Returns =>
            \A i \in 1..Len(raw) : \A f \in PrevFields :
               LET y == call.outcome[2][2][i][3][f]
               IN IF f \notin DOMAIN raw[i][2] THEN y = None
                  ELSE LET x == raw[i][2][f]
                       IN /\ Tag(x) = "None" => y = None
                          /\ Tag(x) = "int" => y = x
                          /\ IsNumberMap(x) =>
                               /\ Tag(y) = "dict" /\ DOMAIN y[2] = DOMAIN x[2]
                               /\ \A k \in DOMAIN x[2] :
                                    y[2][k] = ValidateFloat(x[2][k], TRUE)[2]

\* C20 witness: get_stablecoins got a Stablecoin whose circulatingPrevDay is
\* 0.5, valid otherwise, and failed with a ValidationError.
C20_Witness ==
  /\ StablecoinsReplied
  /\ call.response.body[2] = Obj([peggedAssets |-> Arr(<<StablecoinBad>>)])
  /\ IsOk(Decode("Stablecoin", WithoutPrev(StablecoinBad)))
  /\ ErrorKind = "ValidationError"

\* The raw element with its circulating replaced by a map.
WithMapCirculating(e) ==
  Obj([f \in DOMAIN e[2] \cup {"circulating"} |->
         IF f = "circulating" THEN Obj([peggedUSD |-> PyFloat(15)]) ELSE e[2][f]])
\* The raw element has a circulating that is a bare number.
BareCirculating(e) == "circulating" \in DOMAIN e[2] /\ IsNumber(e[2].circulating)

\* C21 as stated: circulating is a union of a map and a bare number, so
\* elements that decode once their bare-number circulating is replaced by a
\* map make get_stablecoins return, the bare number kept as a number.
C21_CirculatingIsUnion ==
  StablecoinsReplied =>
    LET raw == RawArray(call.op, call.response.body[2])[2]
    IN (\A i \in 1..Len(raw) :
          /\ IsOk(Decode("Stablecoin", WithMapCirculating(raw[i])))
          /\ BareCirculating(raw[i]) \/ IsOk(Decode("Stablecoin", raw[i])))
         => /\ Returns
            /\ \A i \in 1..Len(raw) :
                 BareCirculating(raw[i]) =>
                   IsNumber(call.outcome[2][2][i][3].circulating)

\* C21: circulating is a map and nothing else: a Stablecoin element whose
\* circulating is a bare number (0) fails get_stablecoins with a
\* ValidationError, a map chain->amount decodes to a map with the same keys,
\* and every Stablecoin returned has a map as its circulating.
C21_CirculatingIsMap ==
  StablecoinsReplied =>
    LET raw == RawArray(call.op, call.response.body[2])[2]
    IN /\ (\E i \in 1..Len(raw) : BareCirculating(raw[i]))
            => ErrorKind = "ValidationError"
       /\ Returns =>
            \A i \in 1..Len(raw) :
               LET y == call.outcome[2][2][i][3].circulating
                   x == raw[i][2].circulating
               IN /\ Tag(y) = "dict" /\ Tag(x) = "dict"
                  /\ DOMAIN y[2] = DOMAIN x[2]
                  /\ \A k \in DOMAIN y[2] :
                       IsNumber(x[2][k]) => y[2][k] = ValidateFloat(x[2][k], TRUE)[2]

\* C21 witness: get_stablecoins got one Stablecoin whose circulating is the
\* bare number 0, valid otherwise, and failed with a ValidationError.
C21_Witness ==
  /\ StablecoinsReplied
  /\ call.response.body[2] = Obj([peggedAssets |-> Arr(<<StablecoinBareCirculating>>)])
  /\ IsOk(Decode("Stablecoin", WithMapCirculating(StablecoinBareCirculating)))
  /\ ErrorKind = "ValidationError"

\* Every optional argument in `sel` of the call in progress is in the
\* request's params with the supplied value.
SuppliedSent(sel(_)) ==
  call.pc # "idle" =>
    \A p \in OptionalParams(call.op) :
       sel(call.args[p[1]]) =>
         /\ HasKey(call.request.params, p[2])
         /\ call.request.params[2][p[2]] = call.args[p[1]]
NotNone(v) == v # None

\* C22: an optional parameter the caller supplies with any value other than
\* None, the integer 0 included, is in the query string with that value.
C22_SuppliedSent == SuppliedSent(NotNone)

\* The same for the supplied values Python takes as true (not 0, not "").
C22_TruthySuppliedSent == SuppliedSent(Truthy)

\* get_stablecoin_charts(stablecoin=0) sent a request without the parameter.
C22_ZeroDropped ==
  /\ call.pc = "sent" /\ call.op = "get_stablecoin_charts"
  /\ call.args.stablecoin = PyInt(0)
  /\ ~HasKey(call.request.params, "stablecoin")

\* The operations with an optional chain as the last path segment.
ChainPathOps ==
  {"get_historical_chain_tvl", "get_dexs", "get_options_dexs", "get_fees"}
BasePath(op) ==
  CASE op = "get_historical_chain_tvl" -> "/v2/historicalChainTvl"
    [] op = "get_dexs" -> "/overview/dexs"
    [] op = "get_options_dexs" -> "/overview/options"
    [] op = "get_fees" -> "/overview/fees"
\* The chain argument of the call in progress.
ChainArg ==
  IF call.op = "get_historical_chain_tvl" THEN call.args.chain_slug
  ELSE call.args.chain
\* No chain is supplied: the argument is None or the empty text.
NoChain(c) == c = None \/ c = PyStr(<<>>)

\* C23: on the operations with an optional chain segment the URL is the host
\* and the base path alone when no chain is supplied (None or empty text),
\* and the host, the base path, "/" and the caller's chain, character for
\* character, otherwise; get_stablecoin_charts uses /stablecoincharts/all
\* without a chain and /stablecoincharts/{chain} with one; no URL ends in "/".
C23_ChainSegment ==
  /\ (call.pc # "idle" /\ call.op \in ChainPathOps) =>
       /\ NoChain(ChainArg) =>
            call.request.url = <<HostOf(call.op), BasePath(call.op)>>
       /\ ~NoChain(ChainArg) =>
            call.request.url =
              <<HostOf(call.op), BasePath(call.op), "/">> \o ChainArg[2]
  /\ (call.pc # "idle" /\ call.op = "get_stablecoin_charts") =>
       /\ NoChain(ChainArg) =>
            call.request.url = <<HostOf(call.op), "/stablecoincharts/all">>
       /\ ~NoChain(ChainArg) =>
            call.request.url =
              <<HostOf(call.op), "/stablecoincharts/">> \o ChainArg[2]
  /\ (call.pc # "idle" /\ call.op \in ChainPathOps \cup {"get_stablecoin_charts"}) =>
       LET last == call.request.url[Len(call.request.url)]
       IN last # "/" /\ (NoChain(ChainArg) \/ last # "/stablecoincharts/")

\* C23 witness: get_dexs called with the chain "Eth" sent /overview/dexs/Eth.
C23_Witness ==
  /\ call.pc = "sent" /\ call.op = "get_dexs"
  /\ call.args.chain = PyStr(<<"E","t","h">>)
  /\ call.request.url =
       <<"https://api.llama.fi", "/overview/dexs", "/", "E", "t", "h">>

\* The operations that return a DexOverview, FeeOverview, Dex or Fee.
ChartOps ==
  {"get_dexs", "get_options_dexs", "get_fees", "get_dex_summary",
   "get_options_dex_summary", "get_fee_summary"}
ChartFields == {"totalDataChart", "totalDataChartBreakdown"}
\* x is an array of arrays.
IsRows(x) ==
  Tag(x) = "list" /\ \A i \in 1..Len(x[2]) : Tag(x[2][i]) = "list"
\* A chart operation got a JSON object with status 2xx.
ChartReplied ==
  JsonReplied /\ call.op \in ChartOps /\ Tag(call.response.body[2]) = "dict"

\* C24 as stated: every row of a returned chart has two elements, and a row
\* of another width fails the call with a ValidationError.
C24_RowsArePairs ==
  ChartReplied =>
    \A f \in ChartFields \cap DOMAIN call.response.body[2][2] :
       LET x == call.response.body[2][2][f]
       IN IsRows(x) =>
            /\ (\E i \in 1..Len(x[2]) : Len(x[2][i][2]) # 2)
                 => ErrorKind = "ValidationError"
            /\ Returns =>
                 \A i \in 1..Len(call.outcome[2][3][f][2]) :
                    Len(call.outcome[2][3][f][2][i][2]) = 2

\* C24: in every DexOverview, FeeOverview, Dex and Fee returned, a chart
\* given as rows of numbers is the same rows in the same order, each row of
\* the width it has in the response (0, 1, 2, 3, ...) with every integer an
\* int and every other number a float; a row holding a text that is no
\* number fails the call with a ValidationError.
C24_RowsKept ==
  ChartReplied =>
    \A f \in ChartFields \cap DOMAIN call.response.body[2][2] :
       LET x == call.response.body[2][2][f]
       IN IsRows(x) =>
            /\ (\E i \in 1..Len(x[2]) : \E j \in 1..Len(x[2][i][2]) :
                  x[2][i][2][j] = S("abc"))
                 => ErrorKind = "ValidationError"
            /\ (Returns /\ \A i \in 1..Len(x[2]) : \A j \in 1..Len(x[2][i][2]) :
                             IsNumber(x[2][i][2][j]))
                 => call.outcome[2][3][f] = x

\* C24 witness: get_dexs returned a DexOverview whose totalDataChart has
\* the three rows [], [5] and [6, 1.5, 1] of the response.
C24_Witness ==
  /\ ChartReplied /\ call.op = "get_dexs" /\ Returns
  /\ call.response.body[2][2].totalDataChart = OddRows
  /\ call.outcome[2][3].totalDataChart = OddRows
  /\ Len(call.outcome[2][3].totalDataChart[2][3][2]) = 3

BlockFields == {"height", "timestamp"}
\* get_block got a JSON object with status 2xx.
BlockReplied ==
  JsonReplied /\ call.op = "get_block" /\ Tag(call.response.body[2]) = "dict"
\* A coin-price operation got a JSON object whose coins is an object of
\* objects, with status 2xx.
CoinsReplied ==
  /\ JsonReplied /\ call.op \in CoinPriceOps
  /\ HasKey(call.response.body[2], "coins")
  /\ Tag(call.response.body[2][2].coins) = "dict"
  /\ \A k \in DOMAIN call.response.body[2][2].coins[2] :
        Tag(call.response.body[2][2].coins[2][k]) = "dict"
\* get_protocols got a JSON array with status 2xx.
ProtocolsReplied ==
  JsonReplied /\ call.op = "get_protocols" /\ Tag(call.response.body[2]) = "list"

\* C25 as stated: a text or a boolean in a numeric field (Block.height,
\* Block.timestamp, Coin.price) and a number in a text field (Protocol.id)
\* each fail the call with a ValidationError.
C25_NoCoercion ==
  /\ (BlockReplied
        /\ \E f \in BlockFields \cap DOMAIN call.response.body[2][2] :
              Tag(call.response.body[2][2][f]) \in {"str", "bool"})
       => ErrorKind = "ValidationError"
  /\ (CoinsReplied
        /\ \E k \in DOMAIN call.response.body[2][2].coins[2] :
              LET c == call.response.body[2][2].coins[2][k]
              IN "price" \in DOMAIN c[2] /\ Tag(c[2].price) \in {"str", "bool"})
       => ErrorKind = "ValidationError"
  /\ (ProtocolsReplied
        /\ \E i \in 1..Len(call.response.body[2][2]) :
              LET e == call.response.body[2][2][i]
              IN "id" \in DOMAIN e[2] /\ IsNumber(e[2].id))
       => ErrorKind = "ValidationError"

\* C25: a number in a text field (Protocol.id = 1) and a text that is no
\* number in a numeric field fail the call with a ValidationError; a numeric
\* text and a boolean in a numeric field are converted: the block
\* {"height": "12", "timestamp": true} is returned as height 12, timestamp
\* 1, the price "1.5" as the float 1.5, the price true as the float 1.0, and
\* no returned numeric field holds a text or a boolean.
C25_LaxConversion ==
  /\ (ProtocolsReplied
        /\ \E i \in 1..Len(call.response.body[2][2]) :
              LET e == call.response.body[2][2][i]
              IN "id" \in DOMAIN e[2] /\ IsNumber(e[2].id))
       => ErrorKind = "ValidationError"
  /\ (BlockReplied
        /\ \E f \in BlockFields \cap DOMAIN call.response.body[2][2] :
              call.response.body[2][2][f] = S("abc"))
       => ErrorKind = "ValidationError"
  /\ (BlockReplied /\ call.response.body[2] = BlockTextHeight) =>
       /\ Returns
       /\ call.outcome[2][3].height = PyInt(12)
       /\ call.outcome[2][3].timestamp = PyInt(1)
  /\ (BlockReplied /\ Returns) =>
       \A f \in BlockFields : Tag(call.outcome[2][3][f]) = "int"
  /\ CoinsReplied =>
       LET raw == call.response.body[2][2].coins[2]
       IN /\ (\E k \in DOMAIN raw : raw[k] = CoinBad)
               => ErrorKind = "ValidationError"
          /\ (\A k \in DOMAIN raw : raw[k] \in {CoinTextPrice, CoinBoolPrice})
               => Returns
          /\ Returns =>
               \A k \in DOMAIN raw :
                  LET y == call.outcome[2][3].coins[2][k][3].price
                  IN /\ Tag(y) \in {"float", "None"}
                     /\ raw[k] = CoinTextPrice => y = PyFloat(15)
                     /\ raw[k] = CoinBoolPrice => y = PyFloat(10)

\* C25 witness: get_current_prices got a coin whose price is the text "1.5"
\* and returned it with the float 1.5 as its price.
C25_Witness ==
  /\ CoinsReplied /\ call.op = "get_current_prices" /\ Returns
  /\ call.response.body[2] =
       Obj([coins |-> Obj([k \in {"coingecko:ethereum"} |-> CoinTextPrice])])
  /\ call.outcome[2][3].coins[2]["coingecko:ethereum"][3].price = PyFloat(15)

\* get_protocol_tvl got a JSON body with status 2xx.
TvlReplied == JsonReplied /\ call.op = "get_protocol_tvl"

\* C26: get_protocol_tvl, in both forms, returns a number whenever it
\* returns, and a 2xx body that is not a bare number (an object, an array, a
\* text, null) ends in a ValidationError.
C26_TvlIsNumber ==
  TvlReplied =>
    /\ Returns => IsNumber(call.outcome[2])
    /\ ~IsNumber(call.response.body[2]) => ErrorKind = "ValidationError"

\* get_protocol_tvl_async got the body null with status 200 and returned None.
C26_TvlReturnsNull ==
  /\ TvlReplied /\ call.form = "async"
  /\ call.response.body[2] = None
  /\ Returns /\ call.outcome[2] = None

\* The raw protocol objects of the 2xx JSON body of get_protocols (the
\* elements of the array) or get_protocol (the object itself).
RawProtocols ==
  IF call.op = "get_protocols" THEN call.response.body[2][2]
  ELSE <<call.response.body[2]>>
\* The Protocol / ProtocolDetails values the call returned, in that order.
ReturnedProtocols ==
  IF call.op = "get_protocols" THEN call.outcome[2][2] ELSE <<call.outcome[2]>>
\* get_protocols got a JSON array of objects, or get_protocol a JSON object.
ProtocolObjectsReplied ==
  /\ JsonReplied
  /\ \/ call.op = "get_protocols" /\ Tag(call.response.body[2]) = "list"
     \/ call.op = "get_protocol" /\ Tag(call.response.body[2]) = "dict"

\* C27 as stated: every Protocol and ProtocolDetails returned has a
\* non-empty chains list, and an element whose chains is an empty array
\* fails the call with a ValidationError.
C27_ChainsNonEmpty ==
  ProtocolObjectsReplied =>
    /\ (\E i \in 1..Len(RawProtocols) :
          "chains" \in DOMAIN RawProtocols[i][2]
          /\ RawProtocols[i][2].chains = Arr(<<>>))
         => ErrorKind = "ValidationError"
    /\ Returns =>
         \A i \in 1..Len(ReturnedProtocols) :
            Len(ReturnedProtocols[i][3].chains[2]) > 0

\* C27: chains is a required list of text of any length: every Protocol and
\* ProtocolDetails returned has the chains list of its element of the
\* response, the empty list included, and an element without chains (or
\* with null) fails the call with a ValidationError.
C27_ChainsKept ==
  ProtocolObjectsReplied =>
    /\ (\E i \in 1..Len(RawProtocols) : LacksSome(RawProtocols[i], {"chains"}))
         => ErrorKind = "ValidationError"
    /\ Returns =>
         \A i \in 1..Len(ReturnedProtocols) :
            /\ Tag(ReturnedProtocols[i][3].chains) = "list"
            /\ ReturnedProtocols[i][3].chains = RawProtocols[i][2].chains

\* C27 witness: get_protocol returned a ProtocolDetails whose chains is the
\* empty list of the response.
C27_Witness ==
  /\ ProtocolObjectsReplied /\ call.op = "get_protocol" /\ Returns
  /\ call.response.body[2] = ProtocolDetailsB
  /\ call.outcome[2][3].chains = Arr(<<>>)

\* The tasks whose call handed a request to the non-blocking client.
StartedTasks == {i \in Tasks : loop.tasks[i].nreq = 1}
\* The outcome the call of task i has when it runs alone: that of its own
\* request and its own response.
OwnOutcome(i) ==
  LET c == loop.tasks[i]
  IN IF c.response.kind = "cancelled" THEN Raise(CancelledError)
     ELSE Outcome(c.op, "async", RequestOf(c.op, "async", llama, c.args),
                  c.response)
\* One request per started task, each the task's own, whatever the other sent.
OwnRequests ==
  /\ Len(loop.wire) = Cardinality(StartedTasks)
  /\ \A i \in StartedTasks :
        \E k \in 1..Len(loop.wire) :
           loop.wire[k][1] = i /\ loop.wire[k][2] = loop.tasks[i].request
  /\ \A k, l \in 1..Len(loop.wire) :
        loop.wire[k][1] = loop.wire[l][1] => k = l
\* A step of one task leaves the other task where it is, outcome included.
OthersUntouched ==
  \A i \in Tasks :
     loop'.tasks[i].pc # loop.tasks[i].pc =>
       \A j \in Tasks \ {i} :
          /\ loop'.tasks[j].pc = loop.tasks[j].pc
          /\ loop'.tasks[j].outcome = loop.tasks[j].outcome

\* C28: of two non-blocking calls running concurrently on one client, under
\* every interleaving, each issues its own request (identical arguments
\* included), each ends with the outcome of its own response, and no step of
\* one (a failure or a cancellation included) changes the other.
C28_ConcurrentCallsIndependent ==
  /\ [](OwnRequests /\ \A i \in Tasks :
          loop.tasks[i].pc = "done" => loop.tasks[i].outcome = OwnOutcome(i))
  /\ [][OthersUntouched]_vars

\* C28 witness: both tasks called get_chains_async; two requests were
\* issued; task 1 failed on a 404 and task 2 returned its own two chains.
C28_Witness ==
  /\ \A i \in Tasks : loop.tasks[i].pc = "done" /\ loop.tasks[i].op = "get_chains"
  /\ Len(loop.wire) = 2 /\ loop.wire[1][2] = loop.wire[2][2]
  /\ loop.tasks[1].response.kind = "response"
  /\ loop.tasks[1].response.status_code = 404
  /\ loop.tasks[1].outcome[1] = "raise"
  /\ loop.tasks[1].outcome[2].cls = "ValueError"
  /\ loop.tasks[2].response.kind = "response"
  /\ loop.tasks[2].response.body = <<"json", Arr(<<ChainA, ChainB>>)>>
  /\ loop.tasks[2].outcome[1] = "return"
  /\ Len(loop.tasks[2].outcome[2][2]) = 2

\* The step is the start of a call in the form `form`.
Starts(form) == call.pc = "idle" /\ call'.pc # "idle" /\ call'.form = form
\* The call that starts in this step is refused: it ends at once in httpx's
\* RuntimeError and no request is issued.
Refused ==
  call'.pc = "done" /\ call'.nreq = 0 /\ call'.outcome = Raise(ClosedError)
\* The call that starts in this step issues its request.
Issued == call'.pc = "sent" /\ call'.nreq = 1

\* C29: a blocking call that starts after close() is refused with an
\* error and issues no request, and one that starts before is issued,
\* whatever aclose() did; a non-blocking call is refused after aclose() and
\* issued before, whatever close() did; a closed transport stays closed, a
\* second close() or aclose() included, and a shutdown step changes its own
\* transport only.
C29_CloseIndependent ==
  [][/\ Starts("sync") =>
          IF llama.client = "closed" THEN Refused ELSE Issued
     /\ Starts("async") =>
          IF llama.async_client = "closed" THEN Refused ELSE Issued
     /\ llama.client = "closed" => llama'.client = "closed"
     /\ llama.async_client = "closed" => llama'.async_client = "closed"
     /\ llama'.client # llama.client => llama'.async_client = llama.async_client
     /\ llama'.async_client # llama.async_client => llama'.client = llama.client
    ]_vars

\* C29 witness: after aclose() alone a blocking get_chains issued its
\* request and returned its result.
C29_Witness ==
  /\ llama.client = "open" /\ llama.async_client = "closed"
  /\ call.pc = "done" /\ call.form = "sync" /\ call.op = "get_chains"
  /\ call.nreq = 1 /\ Returns

\* The raw object e without the keys the schema `name` does not declare.
DeclaredOnly(name, e) ==
  IF Tag(e) = "dict"
  THEN Obj([k \in DOMAIN e[2] \cap DOMAIN Schema(name) |-> e[2][k]])
  ELSE e
\* The 2xx JSON body with the undeclared keys removed from the object, from
\* every object of the array and from every coin of a coin-price body.
WithoutUnknownKeys(op, body) ==
  IF op \in CollectionOps THEN
    LET xs == RawArray(op, body)
    IN IF Tag(xs) = "list"
       THEN Arr([i \in 1..Len(xs[2]) |-> DeclaredOnly(ElementOf(op), xs[2][i])])
       ELSE body
  ELSE IF op \in RecordOps THEN
    LET top == DeclaredOnly(RecordOf(op), body)
    IN IF op \in CoinPriceOps /\ HasKey(top, "coins")
          /\ Tag(top[2].coins) = "dict"
       THEN Obj([k \in DOMAIN top[2] |->
                   IF k = "coins"
                   THEN PyDict([c \in DOMAIN top[2].coins[2] |->
                                  DeclaredOnly("Coin", top[2].coins[2][c])])
                   ELSE top[2][k]])
       ELSE top
  ELSE body
\* C30: keys of a response object that the schema does not declare are
\* ignored: whenever the body without them decodes, the body with them
\* decodes too, and the call returns the value the body without them gives.
C30_UnknownKeysIgnored ==
  JsonReplied =>
    LET d == ResultOf(call.op, WithoutUnknownKeys(call.op, call.response.body[2]))
    IN IsOk(d) => call.outcome = Return(d[2])

\* C30 witness: get_pools got a Pool with two undeclared keys and returned
\* it as it returns the Pool without them.
C30_Witness ==
  /\ JsonReplied /\ call.op = "get_pools" /\ Returns
  /\ call.response.body[2] = Obj([data |-> Arr(<<WithExtra(PoolA), PoolB>>)])
  /\ call.outcome[2] = ResultOf("get_pools", Arr(<<PoolA, PoolB>>))[2]
  /\ "unknownKey" \notin DOMAIN call.outcome[2][2][1][3]

====
